---- MODULE Spec2Model ----
(***************************************************************************)
(* A model of the record classification, scoring, routing and merge        *)
(* pipeline of tcad_local_parser.  Python strings are sequences of         *)
(* one-character strings; a csv.DictReader row is a function from column   *)
(* names to such strings, where a column of a row shorter than the header  *)
(* holds None (DictReader's restval) and a column the file does not have   *)
(* is outside the row's domain.                                            *)
(***************************************************************************)
EXTENDS Integers, Sequences, FiniteSets, TLC

VARIABLES prog, pc, rowsRead, counts, streams, cur, args, result

vars == <<prog, pc, rowsRead, counts, streams, cur, args, result>>

----------------------------------------------------------------------------
(* Python values                                                           *)

\* Python's None where a string is expected (DictReader restval).
None == <<"None">>

\* Marks a column that the input file does not have (no key in the row).
Absent == <<"absent">>

\* The whitespace characters of the model's alphabet (str.strip, str.split).
Whitespace == {" ", "\t"}

LowerLetters == <<"a","b","c","d","e","f","g","h","i","j","k","l","m","n","o","p","q","r","s","t","u","v","w","x","y","z">>

UpperLetters == <<"A","B","C","D","E","F","G","H","I","J","K","L","M","N","O","P","Q","R","S","T","U","V","W","X","Y","Z">>

\* str.upper on one character.
UpperChar(c) ==
  IF \E i \in 1..26 : LowerLetters[i] = c
  THEN UpperLetters[CHOOSE i \in 1..26 : LowerLetters[i] = c]
  ELSE c

\* str.upper
Upper(s) == [i \in 1..Len(s) |-> UpperChar(s[i])]

RECURSIVE LStrip(_)
LStrip(s) == IF s # <<>> /\ Head(s) \in Whitespace THEN LStrip(Tail(s)) ELSE s

RECURSIVE RStrip(_)
RStrip(s) ==
  IF s # <<>> /\ s[Len(s)] \in Whitespace THEN RStrip(SubSeq(s, 1, Len(s) - 1)) ELSE s

\* str.strip
Strip(s) == RStrip(LStrip(s))

\* Python's `sub in s` on strings.
Contains(s, sub) ==
  \E i \in 0..(Len(s) - Len(sub)) : SubSeq(s, i + 1, i + Len(sub)) = sub

\* any(kw in s for kw in kws)
AnyIn(kws, s) == \E i \in 1..Len(kws) : Contains(s, kws[i])

\* " ".join(parts)
RECURSIVE JoinSpace(_)
JoinSpace(parts) ==
  IF parts = <<>> THEN <<>>
  ELSE IF Len(parts) = 1 THEN parts[1]
  ELSE parts[1] \o <<" ">> \o JoinSpace(Tail(parts))

\* str.split(): the maximal runs of non-whitespace characters.
RECURSIVE SplitWords(_)
SplitWords(s) ==
  LET t == LStrip(s)
      n == IF \E i \in 1..Len(t) : t[i] \in Whitespace
           THEN CHOOSE i \in 1..Len(t) :
                  t[i] \in Whitespace /\ \A j \in 1..(i - 1) : t[j] \notin Whitespace
           ELSE Len(t) + 1
  IN  IF t = <<>> THEN <<>>
      ELSE <<SubSeq(t, 1, n - 1)>> \o SplitWords(SubSeq(t, n, Len(t)))

\* dict.get(key, default) on a DictReader row.
RowGet(row, key, default) == IF key \in DOMAIN row THEN row[key] ELSE default

\* The row that holds exactly the columns of r whose value is not Absent.
MkRow(r) == [k \in {c \in DOMAIN r : r[c] # Absent} |-> r[k]]

\* All sequences over S of length at most n.
SeqsUpTo(S, n) == UNION {[1..k -> S] : k \in 0..n}

----------------------------------------------------------------------------
(* scripts/classify_entity_roles.py                                        *)

INVESTOR_KEYWORDS ==
  << <<"I","N","V","E","S","T">>,  \* INVEST
     <<"C","A","P","I","T","A","L">>,  \* CAPITAL
     <<"H","O","L","D","I","N","G","S">>,  \* HOLDINGS
     <<"E","Q","U","I","T","Y">>,  \* EQUITY
     <<"P","A","R","T","N","E","R","S">>,  \* PARTNERS
     <<"G","R","O","U","P">>,  \* GROUP
     <<"V","E","N","T","U","R","E","S">>,  \* VENTURES
     <<"P","R","O","P","E","R","T","I","E","S">>,  \* PROPERTIES
     <<"R","E","A","L"," ","E","S","T","A","T","E">>,  \* REAL ESTATE
     <<"D","E","V","E","L","O","P","M","E","N","T">> >>  \* DEVELOPMENT

TRUST_KEYWORDS ==
  << <<"T","R","U","S","T">>,  \* TRUST
     <<"E","S","T","A","T","E">>,  \* ESTATE
     <<"F","A","M","I","L","Y"," ","T","R","U","S","T">>,  \* FAMILY TRUST
     <<"L","I","V","I","N","G"," ","T","R","U","S","T">> >>  \* LIVING TRUST

LEGAL_KEYWORDS ==
  << <<"L","A","W">>,  \* LAW
     <<"A","T","T","O","R","N","E","Y">>,  \* ATTORNEY
     <<"E","S","Q">>,  \* ESQ
     <<"L","E","G","A","L">>,  \* LEGAL
     <<"C","O","U","N","S","E","L">>,  \* COUNSEL
     <<"P","L","L","C">> >>  \* PLLC

ER_BANK_KEYWORDS ==
  << <<"B","A","N","K">>,  \* BANK
     <<"N",".","A",".">>,  \* N.A.
     <<"C","R","E","D","I","T"," ","U","N","I","O","N">>,  \* CREDIT UNION
     <<"M","O","R","T","G","A","G","E">>,  \* MORTGAGE
     <<"S","E","R","V","I","C","I","N","G">>,  \* SERVICING
     <<"F","N","M","A">>,  \* FNMA
     <<"F","R","E","D","D","I","E">>,  \* FREDDIE
     <<"F","H","A">>,  \* FHA
     <<"V","A">>,  \* VA
     <<"U","S","D","A">> >>  \* USDA

GOV_KEYWORDS ==
  << <<"C","I","T","Y"," ","O","F">>,  \* CITY OF
     <<"C","O","U","N","T","Y"," ","O","F">>,  \* COUNTY OF
     <<"S","T","A","T","E"," ","O","F">>,  \* STATE OF
     <<"A","U","T","H","O","R","I","T","Y">>,  \* AUTHORITY
     <<"D","I","S","T","R","I","C","T">> >>  \* DISTRICT

UTILITY_KEYWORDS ==
  << <<"U","T","I","L","I","T","Y">>,  \* UTILITY
     <<"E","L","E","C","T","R","I","C">>,  \* ELECTRIC
     <<"W","A","T","E","R">>,  \* WATER
     <<"S","E","W","E","R">>,  \* SEWER
     <<"F","O","U","N","D","A","T","I","O","N">>,  \* FOUNDATION
     <<"C","H","U","R","C","H">> >>  \* CHURCH

entity_indicators ==
  << <<"L","L","C">>,  \* LLC
     <<"I","N","C">>,  \* INC
     <<"C","O","R","P">>,  \* CORP
     <<"L","T","D">>,  \* LTD
     <<"L","P">>,  \* LP
     <<"L","L","P">>,  \* LLP
     <<"P","C">>,  \* PC
     <<"P","A">>,  \* PA
     <<"C","O">>,  \* CO
     <<"C","O","M","P","A","N","Y">> >>  \* COMPANY

\* The outcome of a call: exc is "" when the call returned.
Returned(role, text, kw) == [exc |-> "", role |-> role, reason |-> <<text, kw>>]

Raised(e) == [exc |-> e, role |-> "", reason |-> <<"", <<>>>>]

\* get_entity_name: "AttributeError" stands for None.strip() raising.
get_entity_name(row) ==
  LET full_name    == RowGet(row, "full_name", <<>>)
      company_name == RowGet(row, "company_name", <<>>)
  IN  IF full_name = None \/ company_name = None THEN <<"AttributeError">>
      ELSE IF Strip(company_name) # <<>> THEN Strip(company_name)
      ELSE Strip(full_name)

contains_keyword(text, keywords) == text # <<>> /\ AnyIn(keywords, Upper(text))

\* A variant that keeps the matches in reverse list order (as matched[-1] would).
MatchedLastFirst(keywords, entity_name_upper) ==
  LET m == SelectSeq(keywords, LAMBDA kw : Contains(entity_name_upper, kw))
  IN  [i \in 1..Len(m) |-> m[Len(m) + 1 - i]]

\* matched = [kw for kw in keywords if kw in entity_name_upper]
Matched(keywords, entity_name_upper) ==
  SelectSeq(keywords, LAMBDA kw : Contains(entity_name_upper, kw))

\* Lines 144-171: the person heuristics, reached when no keyword matched.
classify_person(row, entity_name) ==
  LET entity_name_upper == Upper(entity_name)
      owner_type_raw == RowGet(row, "owner_type", <<>>)
      owner_type == Upper(owner_type_raw)
      has_entity_indicator == AnyIn(entity_indicators, entity_name_upper)
      entity_keywords == INVESTOR_KEYWORDS \o TRUST_KEYWORDS \o LEGAL_KEYWORDS
      PERSON == <<"P","E","R","S","O","N">>
  IN  IF owner_type_raw = None THEN Raised("AttributeError")
      ELSE IF owner_type = PERSON /\ ~has_entity_indicator
              /\ ~contains_keyword(entity_name, entity_keywords)
      THEN Returned("INDIVIDUAL_PERSON", "owner_type=PERSON, no entity keywords", <<>>)
      ELSE IF ~has_entity_indicator
              /\ Len(SplitWords(entity_name)) <= 5
              /\ ~contains_keyword(entity_name, entity_keywords)
              /\ owner_type = PERSON
      THEN Returned("INDIVIDUAL_PERSON", "appears to be individual person", <<>>)
      ELSE Returned("UNKNOWN", "no matching keywords or patterns", <<>>)

classify_entity_role(row) ==
  LET entity_name == get_entity_name(row)
      entity_name_upper == Upper(entity_name)
  IN  IF entity_name = <<"AttributeError">> THEN Raised("AttributeError")
      ELSE IF entity_name = <<>> THEN Returned("UNKNOWN", "no name provided", <<>>)
      ELSE IF contains_keyword(entity_name, ER_BANK_KEYWORDS)
      THEN Returned("BANK_INSTITUTION", "bank keyword: ",
                    Matched(ER_BANK_KEYWORDS, entity_name_upper)[1])
      ELSE IF contains_keyword(entity_name, GOV_KEYWORDS)
      THEN Returned("GOVERNMENT_ENTITY", "government keyword: ",
                    Matched(GOV_KEYWORDS, entity_name_upper)[1])
      ELSE IF contains_keyword(entity_name, UTILITY_KEYWORDS)
      THEN Returned("UTILITY_OR_NONPROFIT", "utility keyword: ",
                    Matched(UTILITY_KEYWORDS, entity_name_upper)[1])
      ELSE IF contains_keyword(entity_name, TRUST_KEYWORDS)
      THEN Returned("TRUST_ENTITY", "trust keyword: ",
                    Matched(TRUST_KEYWORDS, entity_name_upper)[1])
      ELSE IF contains_keyword(entity_name, INVESTOR_KEYWORDS)
      THEN Returned("INVESTOR_ENTITY", "investor keyword: ",
                    Matched(INVESTOR_KEYWORDS, entity_name_upper)[1])
      ELSE IF contains_keyword(entity_name, LEGAL_KEYWORDS)
      THEN Returned("LEGAL_ENTITY", "legal keyword: ",
                    Matched(LEGAL_KEYWORDS, entity_name_upper)[1])
      ELSE classify_person(row, entity_name)

----------------------------------------------------------------------------
(* Inputs of the entity classifier                                         *)

\* At most this many fragments make up a name.
MaxFrags == 2

NameFragments ==
  << <<"B","A","N","K">>,  \* BANK
     <<"C","I","T","Y"," ","O","F">>,  \* CITY OF
     <<"W","A","T","E","R">>,  \* WATER
     <<"T","R","U","S","T">>,  \* TRUST
     <<"H","O","L","D","I","N","G","S">>,  \* HOLDINGS
     <<"L","A","W">>,  \* LAW
     <<"S","M","I","T","H">>,  \* SMITH
     <<"e","s","t","a","t","e">>,  \* estate
     <<"I","N","C">>,  \* INC
     <<"P","A","U","L">> >>  \* PAUL

EntityNames ==
  {JoinSpace([i \in 1..Len(fs) |-> NameFragments[fs[i]]]) :
     fs \in SeqsUpTo(1..Len(NameFragments), MaxFrags)}

EntityRows ==
  {MkRow([full_name |-> fn, company_name |-> cn, owner_type |-> ot]) :
     fn \in EntityNames \cup {None, Absent},
     cn \in {Absent, None, <<"A","C","M","E"," ","L","P">>},
     ot \in {Absent, None, <<"p","e","r","s","o","n">>, <<"L","L","C">>}}

NoResult == [exc |-> "not called", role |-> "", reason |-> <<"", <<>>>>]

StagesIdle ==
  /\ pc = "idle" /\ rowsRead = 0 /\ counts = <<>> /\ streams = <<>> /\ cur = <<>>

InitClassify ==
  /\ prog = "classify_entity_role"
  /\ args \in EntityRows
  /\ result = NoResult
  /\ StagesIdle

CallClassifyEntityRole ==
  /\ prog = "classify_entity_role"
  /\ result = NoResult
  /\ result' = classify_entity_role(args)
  /\ UNCHANGED <<prog, pc, rowsRead, counts, streams, cur, args>>

SpecClassify == InitClassify /\ [][CallClassifyEntityRole]_vars

----------------------------------------------------------------------------
(* Claims about classify_entity_role                                       *)

EntityRoles ==
  {"BANK_INSTITUTION", "GOVERNMENT_ENTITY", "UTILITY_OR_NONPROFIT", "TRUST_ENTITY",
   "INVESTOR_ENTITY", "LEGAL_ENTITY", "INDIVIDUAL_PERSON", "UNKNOWN"}

\* A name field that gives no name: no such column, None, or blank.
NoNameIn(row, key) ==
  \/ key \notin DOMAIN row
  \/ row[key] = None
  \/ \A i \in 1..Len(row[key]) : row[key][i] \in Whitespace

\* C4: classify_entity_role is total and never raises: whatever the name fields
\* hold (a string, the empty string, a missing key, or the None of a short row)
\* it returns one role of the closed set, and UNKNOWN with reason
\* "no name provided" when no name is available.
C4_TotalNeverRaises ==
  (prog = "classify_entity_role" /\ result # NoResult) =>
    /\ result.exc = ""
    /\ result.role \in EntityRoles
    /\ (NoNameIn(args, "full_name") /\ NoNameIn(args, "company_name")) =>
         (result.role = "UNKNOWN" /\ result.reason = <<"no name provided", <<>>>>)

\* The keyword categories in the claimed precedence order.
C5_Categories ==
  << [role |-> "BANK_INSTITUTION",     text |-> "bank keyword: ",       kws |-> ER_BANK_KEYWORDS],
     [role |-> "GOVERNMENT_ENTITY",    text |-> "government keyword: ", kws |-> GOV_KEYWORDS],
     [role |-> "UTILITY_OR_NONPROFIT", text |-> "utility keyword: ",    kws |-> UTILITY_KEYWORDS],
     [role |-> "TRUST_ENTITY",         text |-> "trust keyword: ",      kws |-> TRUST_KEYWORDS],
     [role |-> "INVESTOR_ENTITY",      text |-> "investor keyword: ",   kws |-> INVESTOR_KEYWORDS],
     [role |-> "LEGAL_ENTITY",         text |-> "legal keyword: ",      kws |-> LEGAL_KEYWORDS] >>

\* The upper-cased name the row is classified by: the company name when it has one.
C5_UpperName(row) ==
  LET cn == Strip(RowGet(row, "company_name", <<>>))
  IN  Upper(IF cn # <<>> THEN cn ELSE Strip(RowGet(row, "full_name", <<>>)))

\* The indexes of C5_Categories with a keyword that occurs in u.
C5_Hits(u) ==
  {c \in 1..Len(C5_Categories) :
     \E k \in 1..Len(C5_Categories[c].kws) : Contains(u, C5_Categories[c].kws[k])}

\* C5: the keyword categories are applied in the precedence bank -> government
\* -> utility/nonprofit -> trust -> investor -> legal: the role is the
\* highest-precedence category with a keyword in the upper-cased name, and the
\* reason names the first keyword of that category's list that occurs in it.
C5_KeywordPrecedence ==
  (prog = "classify_entity_role" /\ result.exc = "" /\ C5_Hits(C5_UpperName(args)) # {}) =>
    LET u   == C5_UpperName(args)
        c   == CHOOSE x \in C5_Hits(u) : \A y \in C5_Hits(u) : x <= y
        cat == C5_Categories[c]
        k   == CHOOSE x \in 1..Len(cat.kws) :
                 /\ Contains(u, cat.kws[x])
                 /\ \A y \in 1..(x - 1) : ~Contains(u, cat.kws[y])
    IN  result.role = cat.role /\ result.reason = <<cat.text, cat.kws[k]>>

\* The space-separated tokens of the upper-cased name.
C22_Tokens(row) == SplitWords(C5_UpperName(row))

C22_HasSuffixToken(row) ==
  \E i \in 1..Len(C22_Tokens(row)) : \E k \in 1..Len(entity_indicators) :
    C22_Tokens(row)[i] = entity_indicators[k]

C22_PersonHint(row) ==
  /\ RowGet(row, "owner_type", <<>>) # None
  /\ Upper(RowGet(row, "owner_type", <<>>)) = <<"P","E","R","S","O","N">>

\* C22: a name that matches no keyword of the six categories is
\* INDIVIDUAL_PERSON when none of its space-separated tokens is a corporate
\* suffix (LLC, INC, CORP, LTD, LP, LLP, PC, PA, CO, COMPANY) and either the
\* owner_type hint is PERSON or the name has at most 5 tokens; every other
\* name that matches no keyword is UNKNOWN.
C22_PersonOrUnknown ==
  (/\ prog = "classify_entity_role" /\ result.exc = ""
   /\ C5_UpperName(args) # <<>>
   /\ C5_Hits(C5_UpperName(args)) = {}) =>
    result.role = IF /\ ~C22_HasSuffixToken(args)
                     /\ (C22_PersonHint(args) \/ Len(C22_Tokens(args)) <= 5)
                  THEN "INDIVIDUAL_PERSON" ELSE "UNKNOWN"

\* A name with keywords of two categories, the higher of them trust (such as
\* "TRUST HOLDINGS"), has been classified.
C5_Witness ==
  /\ prog = "classify_entity_role"
  /\ result.exc = ""
  /\ result.role = "TRUST_ENTITY"
  /\ Cardinality(C5_Hits(C5_UpperName(args))) >= 2

----------------------------------------------------------------------------
(* main.py: the fixed-width record extractor                               *)

\* Python's s[a:b] for 0 <= a.
PySlice(s, a, b) ==
  LET hi == IF b > Len(s) THEN Len(s) ELSE b
  IN  IF a >= hi THEN <<>> ELSE SubSeq(s, a + 1, hi)

\* A variant that forgets the conversion to 0-based indexing.
extract_field_OffByOne(line, start_pos, end_pos) ==
  LET start_idx == start_pos
      end_idx   == IF Len(line) < end_pos THEN Len(line) ELSE end_pos
  IN  IF start_idx >= Len(line) THEN <<>>
      ELSE Strip(PySlice(line, start_idx, end_idx))

extract_field(line, start_pos, end_pos) ==
  LET start_idx == start_pos - 1
      end_idx   == IF Len(line) < end_pos THEN Len(line) ELSE end_pos
  IN  IF start_idx >= Len(line) THEN <<>>
      ELSE Strip(PySlice(line, start_idx, end_idx))

\* Lines hold at most this many characters.
MaxLineLen == 4

\* Field positions go up to this column.
MaxPos == 5

LineChars == {" ", "\t", "a", "b"}

InitExtract ==
  /\ prog = "extract_field"
  /\ args \in [line : SeqsUpTo(LineChars, MaxLineLen),
               start_pos : 1..MaxPos, end_pos : 1..MaxPos]
  /\ args.start_pos <= args.end_pos
  /\ result = [exc |-> "not called", value |-> <<>>]
  /\ StagesIdle

CallExtractField ==
  /\ prog = "extract_field"
  /\ result.exc = "not called"
  /\ result' = [exc |-> "", value |-> extract_field(args.line, args.start_pos, args.end_pos)]
  /\ UNCHANGED <<prog, pc, rowsRead, counts, streams, cur, args>>

SpecExtract == InitExtract /\ [][CallExtractField]_vars

\* s without its leading and trailing whitespace: from its first to its last
\* character that is not whitespace.
C10_Trimmed(s) ==
  LET ink == {i \in 1..Len(s) : s[i] \notin Whitespace}
  IN  IF ink = {} THEN <<>>
      ELSE SubSeq(s, CHOOSE i \in ink : \A j \in ink : i <= j,
                     CHOOSE i \in ink : \A j \in ink : i >= j)

\* C10: for 1 <= start <= end, extract_field returns the characters
\* start..min(end, len(line)) of the line without surrounding whitespace, the
\* empty string when start > len(line), and never raises on a short line.
C10_ExtractField ==
  (prog = "extract_field" /\ result.exc # "not called") =>
    LET n    == Len(args.line)
        last == IF args.end_pos < n THEN args.end_pos ELSE n
    IN  /\ result.exc = ""
        /\ args.start_pos > n => result.value = <<>>
        /\ args.start_pos <= n =>
             result.value =
               C10_Trimmed([i \in 1..(last - args.start_pos + 1) |->
                              args.line[args.start_pos + i - 1]])

\* A field that ends beyond the end of a short line and holds padding around
\* its text has been extracted.
C10_Witness ==
  /\ prog = "extract_field"
  /\ result.exc = ""
  /\ args.end_pos > Len(args.line)
  /\ args.start_pos < Len(args.line)
  /\ args.line[args.start_pos] \in Whitespace
  /\ result.value # <<>>

----------------------------------------------------------------------------
(* generate_lead_id of filter_notes.py and of generate_property_targets.py *)

\* Python's (x or ""): None and the empty string both give "".
OrEmpty(x) == IF x = None THEN <<>> ELSE x

\* hashlib.sha1(...).hexdigest(), idealised as collision-free: the digest is
\* determined by, and stands for, the hashed text.
sha1_hexdigest(text) == <<"sha1:">> \o text

\* A variant that leaves the name's case as it is.
FN_generate_lead_id_NoUpper(full_name, mailing_zip, loan_amount, recording_date) ==
  LET hash_input == Strip(OrEmpty(full_name)) \o <<"|">> \o Strip(OrEmpty(mailing_zip))
                    \o <<"|">> \o Strip(OrEmpty(loan_amount))
                    \o <<"|">> \o Strip(OrEmpty(recording_date))
  IN  [hash_input |-> hash_input, lead_id |-> sha1_hexdigest(hash_input)]

\* filter_notes.generate_lead_id
FN_generate_lead_id(full_name, mailing_zip, loan_amount, recording_date) ==
  LET hash_input == Upper(Strip(OrEmpty(full_name))) \o <<"|">> \o Strip(OrEmpty(mailing_zip))
                    \o <<"|">> \o Strip(OrEmpty(loan_amount))
                    \o <<"|">> \o Strip(OrEmpty(recording_date))
  IN  [hash_input |-> hash_input, lead_id |-> sha1_hexdigest(hash_input)]

\* generate_property_targets.generate_lead_id
PT_generate_lead_id(owner_name, account_id, mailing_zip) ==
  LET hash_input == Upper(Strip(OrEmpty(owner_name))) \o <<"|">> \o Strip(OrEmpty(account_id))
                    \o <<"|">> \o Strip(OrEmpty(mailing_zip))
  IN  [hash_input |-> hash_input, lead_id |-> sha1_hexdigest(hash_input)]

\* The components of the records whose ids are generated.
LeadIdRecords ==
  [name : {None, <<"a"," ","B">>, <<" ","A"," ","b"," ">>, <<"A"," "," ","B">>, <<"c">>},
   zip  : {<<>>, <<"7","a">>, <<"7","a"," ">>, <<"7","A">>},
   amount_or_account : {<<"1">>, <<"\t","1">>},
   date : {<<"d">>, None}]

\* The id one variant gives a record.
LeadIdOf(variant, r) ==
  IF variant = "filter_notes"
  THEN FN_generate_lead_id(r.name, r.zip, r.amount_or_account, r.date)
  ELSE PT_generate_lead_id(r.name, r.amount_or_account, r.zip)

InitLeadId ==
  /\ prog = "generate_lead_id"
  /\ args \in [variant : {"filter_notes", "generate_property_targets"},
               first : LeadIdRecords, second : LeadIdRecords]
  /\ result = [exc |-> "not called", first |-> <<>>, second |-> <<>>]
  /\ StagesIdle

\* Two records of one input, at different positions, get their ids.
CallGenerateLeadId ==
  /\ prog = "generate_lead_id"
  /\ result.exc = "not called"
  /\ result' = [exc |-> "", first |-> LeadIdOf(args.variant, args.first),
                second |-> LeadIdOf(args.variant, args.second)]
  /\ UNCHANGED <<prog, pc, rowsRead, counts, streams, cur, args>>

SpecLeadId == InitLeadId /\ [][CallGenerateLeadId]_vars

\* The components a variant hashes, name first.
C7_Components(variant, r) ==
  IF variant = "filter_notes" THEN <<r.name, r.zip, r.amount_or_account, r.date>>
  ELSE <<r.name, r.amount_or_account, r.zip>>

\* The claim's normalization: upper-cased and whitespace-collapsed.
C7_UpperCollapsed(x) == JoinSpace(SplitWords(Upper(OrEmpty(x))))

\* The normalization of the code: trimmed, and the name (component 1) upper-cased.
C7_Trimmed(x) == C10_Trimmed(OrEmpty(x))

C7_CodeNormal(i, x) == IF i = 1 THEN Upper(C7_Trimmed(x)) ELSE C7_Trimmed(x)

\* C7 as stated: two records whose components are equal after upper-casing
\* and whitespace-collapsing receive the same lead_id.
C7_SameIdWhenUpperCollapsedEqual ==
  (prog = "generate_lead_id" /\ result.exc = "") =>
    LET a == C7_Components(args.variant, args.first)
        b == C7_Components(args.variant, args.second)
    IN  (\A i \in 1..Len(a) : C7_UpperCollapsed(a[i]) = C7_UpperCollapsed(b[i]))
          => result.first.lead_id = result.second.lead_id

\* The components of a record as the code normalizes them, joined by "|".
RECURSIVE C7_PipeJoined(_, _)
C7_PipeJoined(comps, i) ==
  IF i > Len(comps) THEN <<>>
  ELSE (IF i = 1 THEN <<>> ELSE <<"|">>) \o C7_CodeNormal(i, comps[i])
       \o C7_PipeJoined(comps, i + 1)

\* C7 (amended): two records whose components are equal after trimming, the
\* name also after upper-casing, receive the same lead_id; the hash input of a
\* record is the pipe-joined sequence of its components so normalized, so
\* records whose pipe-joined normalized components differ get different hash
\* inputs.
C7_SameIdWhenTrimmedEqual ==
  (prog = "generate_lead_id" /\ result.exc = "") =>
    LET a == C7_Components(args.variant, args.first)
        b == C7_Components(args.variant, args.second)
    IN  /\ (\A i \in 1..Len(a) : C7_CodeNormal(i, a[i]) = C7_CodeNormal(i, b[i]))
             => result.first.lead_id = result.second.lead_id
        /\ result.first.hash_input = C7_PipeJoined(a, 1)
        /\ result.second.hash_input = C7_PipeJoined(b, 1)

\* Two records that differ in padding and in the case of the name, and are
\* equal once trimmed and upper-cased, have received their ids.
C7_Witness ==
  /\ prog = "generate_lead_id"
  /\ result.exc = ""
  /\ args.first # args.second
  /\ args.first.name = <<"a"," ","B">>
  /\ args.second.name = <<" ","A"," ","b"," ">>
  /\ args.first.zip # args.second.zip
  /\ result.first.lead_id = result.second.lead_id

----------------------------------------------------------------------------
(* Numbers and dates read from text                                        *)

\* Optional[float] / Optional[datetime]: <<>> is None, <<v>> holds v.  The
\* amounts of the model are whole numbers.
NoValue == <<>>

Some(v) == <<v>>

Digits == <<"0","1","2","3","4","5","6","7","8","9">>

IsDigit(c) == \E i \in 1..10 : Digits[i] = c

DigitVal(c) == (CHOOSE i \in 1..10 : Digits[i] = c) - 1

RECURSIVE DigitsVal(_)
DigitsVal(s) == IF s = <<>> THEN 0 ELSE 10 * DigitsVal(SubSeq(s, 1, Len(s) - 1)) + DigitVal(s[Len(s)])

\* str.replace(c, "") for each character c of chars.
Without(s, chars) == SelectSeq(s, LAMBDA c : c \notin chars)

\* float(text) for the texts of the model: an optionally signed run of digits
\* converts, any other text raises ValueError (NoValue here).
ToNumber(text) ==
  LET t    == Strip(text)
      body == IF t # <<>> /\ t[1] \in {"-", "+"} THEN Tail(t) ELSE t
  IN  IF body # <<>> /\ \A i \in 1..Len(body) : IsDigit(body[i])
      THEN Some(IF t[1] = "-" THEN 0 - DigitsVal(body) ELSE DigitsVal(body))
      ELSE NoValue

\* parse_amount (the same function in filter_notes, filter_private_notes,
\* note_broker_refine and generate_property_targets).
parse_amount(amount_str) ==
  IF amount_str = None \/ amount_str = <<>> \/ Strip(amount_str) = <<>> THEN NoValue
  ELSE ToNumber(Without(Strip(amount_str), {"$", ",", " "}))

\* The dates of the model with delta.days of (datetime.now() - date), for a
\* run on 2026-11-06: 2.998 / 3.001 / 4.999 / 15.0 / 20.0 / 20.003 years.
KnownDates ==
  << [text |-> <<"2","0","2","3","-","1","1","-","0","7">>, days |-> 1095],
     [text |-> <<"2","0","2","3","-","1","1","-","0","6">>, days |-> 1096],
     [text |-> <<"1","1","/","0","6","/","2","0","2","1">>, days |-> 1826],
     [text |-> <<"2","0","1","1","-","1","1","-","0","6">>, days |-> 5479],
     [text |-> <<"2","0","0","6","-","1","1","-","0","6">>, days |-> 7305],
     [text |-> <<"2","0","0","6","-","1","1","-","0","5">>, days |-> 7306] >>

\* parse_date followed by get_recording_age_years: the age of the recording,
\* kept as delta.days (the age in years is days / 365.25); NoValue when the
\* text matches none of the formats.
recording_age_days(date_str) ==
  IF date_str = None \/ date_str = <<>> \/ Strip(date_str) = <<>> THEN NoValue
  ELSE IF \E i \in 1..Len(KnownDates) : KnownDates[i].text = Strip(date_str)
  THEN Some(KnownDates[CHOOSE i \in 1..Len(KnownDates) : KnownDates[i].text = Strip(date_str)].days)
  ELSE NoValue

\* days / 365.25 < years, <= years, as 4 * days against 1461 * years.
AgeLT(days, years) == 4 * days < 1461 * years

AgeLE(days, years) == 4 * days <= 1461 * years

----------------------------------------------------------------------------
(* scripts/filter_notes.py and scripts/filter_private_notes.py             *)

MAX_LOAN_AMOUNT == 500000

MIN_AGE_YEARS == 3

MAX_AGE_YEARS == 20

FN_BANK_KEYWORDS ==
  << <<"B","A","N","K">>,  \* BANK
     <<"N",".","A",".">>,  \* N.A.
     <<"M","O","R","T","G","A","G","E">>,  \* MORTGAGE
     <<"S","E","R","V","I","C","I","N","G">>,  \* SERVICING
     <<"W","E","L","L","S"," ","F","A","R","G","O">>,  \* WELLS FARGO
     <<"W","E","L","L","S">>,  \* WELLS
     <<"J","P","M","O","R","G","A","N">>,  \* JPMORGAN
     <<"J","P"," ","M","O","R","G","A","N">>,  \* JP MORGAN
     <<"C","H","A","S","E">>,  \* CHASE
     <<"B","A","N","K"," ","O","F"," ","A","M","E","R","I","C","A">>,  \* BANK OF AMERICA
     <<"B","A","N","K"," ","O","F"," ","A","M","E","R">>,  \* BANK OF AMER
     <<"B","O","A">>,  \* BOA
     <<"C","I","T","I","B","A","N","K">>,  \* CITIBANK
     <<"C","I","T","I">>,  \* CITI
     <<"U",".","S","."," ","B","A","N","K">>,  \* U.S. BANK
     <<"U","S"," ","B","A","N","K">>,  \* US BANK
     <<"U","S","B","A","N","K">>,  \* USBANK
     <<"P","N","C">>,  \* PNC
     <<"T","R","U","I","S","T">>,  \* TRUIST
     <<"C","A","P","I","T","A","L"," ","O","N","E">>,  \* CAPITAL ONE
     <<"C","A","P","I","T","A","L","O","N","E">>,  \* CAPITALONE
     <<"R","E","G","I","O","N","S"," ","B","A","N","K">>,  \* REGIONS BANK
     <<"R","E","G","I","O","N","S">>,  \* REGIONS
     <<"S","U","N","T","R","U","S","T">>,  \* SUNTRUST
     <<"B","B","&","T">>,  \* BB&T
     <<"B","B","T">>,  \* BBT
     <<"T","D"," ","B","A","N","K">>,  \* TD BANK
     <<"H","S","B","C">>,  \* HSBC
     <<"B","A","N","K"," ","O","F"," ","N","E","W"," ","Y","O","R","K">>,  \* BANK OF NEW YORK
     <<"B","N","Y">>,  \* BNY
     <<"D","E","U","T","S","C","H","E"," ","B","A","N","K">>,  \* DEUTSCHE BANK
     <<"B","A","R","C","L","A","Y","S">>,  \* BARCLAYS
     <<"M","O","R","G","A","N"," ","S","T","A","N","L","E","Y">>,  \* MORGAN STANLEY
     <<"G","O","L","D","M","A","N"," ","S","A","C","H","S">>,  \* GOLDMAN SACHS
     <<"M","E","R","R","I","L","L"," ","L","Y","N","C","H">>,  \* MERRILL LYNCH
     <<"F","I","D","E","L","I","T","Y">>,  \* FIDELITY
     <<"V","A","N","G","U","A","R","D">>,  \* VANGUARD
     <<"F","E","D","E","R","A","L"," ","H","O","M","E"," ","L","O","A","N">>,  \* FEDERAL HOME LOAN
     <<"F","H","L","M","C">>,  \* FHLMC
     <<"F","R","E","D","D","I","E"," ","M","A","C">>,  \* FREDDIE MAC
     <<"F","A","N","N","I","E"," ","M","A","E">>,  \* FANNIE MAE
     <<"F","N","M","A">>,  \* FNMA
     <<"G","I","N","N","I","E"," ","M","A","E">>,  \* GINNIE MAE
     <<"G","N","M","A">>,  \* GNMA
     <<"F","H","A">>,  \* FHA
     <<"V","A"," ","L","O","A","N">>,  \* VA LOAN
     <<"U","S","D","A">> >>  \* USDA

SELLER_FINANCE_KEYWORDS ==
  << <<"P","U","R","C","H","A","S","E"," ","M","O","N","E","Y">>,  \* PURCHASE MONEY
     <<"S","E","L","L","E","R"," ","F","I","N","A","N","C","E">>,  \* SELLER FINANCE
     <<"S","E","L","L","E","R"," ","F","I","N","A","N","C","I","N","G">>,  \* SELLER FINANCING
     <<"V","E","N","D","O","R"," ","L","I","E","N">>,  \* VENDOR LIEN
     <<"D","E","E","D"," ","O","F"," ","T","R","U","S","T">>,  \* DEED OF TRUST
     <<"N","O","T","E">>,  \* NOTE
     <<"M","O","R","T","G","A","G","E">>,  \* MORTGAGE
     <<"P","R","O","M","I","S","S","O","R","Y"," ","N","O","T","E">>,  \* PROMISSORY NOTE
     <<"I","N","S","T","A","L","L","M","E","N","T"," ","S","A","L","E">> >>  \* INSTALLMENT SALE

DISCARD_DOC_TYPES ==
  << <<"R","E","L","E","A","S","E">>,  \* RELEASE
     <<"S","A","T","I","S","F","A","C","T","I","O","N">>,  \* SATISFACTION
     <<"R","E","L","E","A","S","E"," ","O","F"," ","L","I","E","N">>,  \* RELEASE OF LIEN
     <<"S","A","T","I","S","F","A","C","T","I","O","N"," ","O","F"," ","M","O","R","T","G","A","G","E">>,  \* SATISFACTION OF MORTGAGE
     <<"C","A","N","C","E","L","L","A","T","I","O","N">> >>  \* CANCELLATION

BANK_SERVICER_KEYWORDS ==
  << <<"B","A","N","K">>,  \* BANK
     <<"N",".","A",".">>,  \* N.A.
     <<"M","O","R","T","G","A","G","E">>,  \* MORTGAGE
     <<"S","E","R","V","I","C","I","N","G">>,  \* SERVICING
     <<"W","E","L","L","S"," ","F","A","R","G","O">>,  \* WELLS FARGO
     <<"W","E","L","L","S">>,  \* WELLS
     <<"J","P","M","O","R","G","A","N">>,  \* JPMORGAN
     <<"J","P"," ","M","O","R","G","A","N">>,  \* JP MORGAN
     <<"C","H","A","S","E">>,  \* CHASE
     <<"B","A","N","K"," ","O","F"," ","A","M","E","R","I","C","A">>,  \* BANK OF AMERICA
     <<"B","A","N","K"," ","O","F"," ","A","M","E","R">>,  \* BANK OF AMER
     <<"B","O","A">>,  \* BOA
     <<"C","I","T","I","B","A","N","K">>,  \* CITIBANK
     <<"C","I","T","I">>,  \* CITI
     <<"U",".","S","."," ","B","A","N","K">>,  \* U.S. BANK
     <<"U","S"," ","B","A","N","K">>,  \* US BANK
     <<"U","S","B","A","N","K">>,  \* USBANK
     <<"P","N","C">>,  \* PNC
     <<"T","R","U","I","S","T">>,  \* TRUIST
     <<"C","A","P","I","T","A","L"," ","O","N","E">>,  \* CAPITAL ONE
     <<"C","A","P","I","T","A","L","O","N","E">>,  \* CAPITALONE
     <<"R","E","G","I","O","N","S"," ","B","A","N","K">>,  \* REGIONS BANK
     <<"R","E","G","I","O","N","S">>,  \* REGIONS
     <<"S","U","N","T","R","U","S","T">>,  \* SUNTRUST
     <<"B","B","&","T">>,  \* BB&T
     <<"B","B","T">>,  \* BBT
     <<"T","D"," ","B","A","N","K">>,  \* TD BANK
     <<"H","S","B","C">>,  \* HSBC
     <<"B","A","N","K"," ","O","F"," ","N","E","W"," ","Y","O","R","K">>,  \* BANK OF NEW YORK
     <<"B","N","Y">>,  \* BNY
     <<"D","E","U","T","S","C","H","E"," ","B","A","N","K">>,  \* DEUTSCHE BANK
     <<"B","A","R","C","L","A","Y","S">>,  \* BARCLAYS
     <<"M","O","R","G","A","N"," ","S","T","A","N","L","E","Y">>,  \* MORGAN STANLEY
     <<"G","O","L","D","M","A","N"," ","S","A","C","H","S">>,  \* GOLDMAN SACHS
     <<"M","E","R","R","I","L","L"," ","L","Y","N","C","H">>,  \* MERRILL LYNCH
     <<"F","I","D","E","L","I","T","Y">>,  \* FIDELITY
     <<"V","A","N","G","U","A","R","D">>,  \* VANGUARD
     <<"F","E","D","E","R","A","L"," ","H","O","M","E"," ","L","O","A","N">>,  \* FEDERAL HOME LOAN
     <<"F","H","L","M","C">>,  \* FHLMC
     <<"F","R","E","D","D","I","E"," ","M","A","C">>,  \* FREDDIE MAC
     <<"F","A","N","N","I","E"," ","M","A","E">>,  \* FANNIE MAE
     <<"F","N","M","A">>,  \* FNMA
     <<"G","I","N","N","I","E"," ","M","A","E">>,  \* GINNIE MAE
     <<"G","N","M","A">>,  \* GNMA
     <<"F","H","A">>,  \* FHA
     <<"V","A"," ","L","O","A","N">>,  \* VA LOAN
     <<"U","S","D","A">>,  \* USDA
     <<"S","E","R","V","I","C","I","N","G">>,  \* SERVICING
     <<"S","E","R","V","I","C","E">>,  \* SERVICE
     <<"S","E","R","V","I","C","E","R">> >>  \* SERVICER

PREFERRED_DOC_TYPES ==
  << <<"P","U","R","C","H","A","S","E"," ","M","O","N","E","Y">>,  \* PURCHASE MONEY
     <<"S","E","L","L","E","R"," ","F","I","N","A","N","C","E">>,  \* SELLER FINANCE
     <<"S","E","L","L","E","R"," ","F","I","N","A","N","C","I","N","G">>,  \* SELLER FINANCING
     <<"V","E","N","D","O","R"," ","L","I","E","N">>,  \* VENDOR LIEN
     <<"D","E","E","D"," ","O","F"," ","T","R","U","S","T">>,  \* DEED OF TRUST
     <<"N","O","T","E">>,  \* NOTE
     <<"M","O","R","T","G","A","G","E">>,  \* MORTGAGE
     <<"P","R","O","M","I","S","S","O","R","Y"," ","N","O","T","E">>,  \* PROMISSORY NOTE
     <<"I","N","S","T","A","L","L","M","E","N","T"," ","S","A","L","E">> >>  \* INSTALLMENT SALE

TRUST_LENDER_KEYWORDS ==
  << <<"T","R","U","S","T">>,  \* TRUST
     <<"T","R","U","S","T","E","E">>,  \* TRUSTEE
     <<"E","S","T","A","T","E">> >>  \* ESTATE

LLC_SUFFIXES ==
  << <<"L","L","C">>,  \* LLC
     <<"L",".","L",".","C",".">>,  \* L.L.C.
     <<"L"," ","L"," ","C">> >>  \* L L C

corporate_suffixes ==
  << <<"I","N","C">>,  \* INC
     <<"I","N","C","O","R","P","O","R","A","T","E","D">>,  \* INCORPORATED
     <<"C","O","R","P">>,  \* CORP
     <<"C","O","R","P","O","R","A","T","I","O","N">>,  \* CORPORATION
     <<"L","T","D">>,  \* LTD
     <<"L","I","M","I","T","E","D">>,  \* LIMITED
     <<"L","P">>,  \* LP
     <<"L",".","P",".">>,  \* L.P.
     <<"L","L","P">>,  \* LLP
     <<"L",".","L",".","P",".">>,  \* L.L.P.
     <<"P","C">>,  \* PC
     <<"P",".","C",".">>,  \* P.C.
     <<"P","L","L","C">> >>  \* PLLC

CORPORATE_WORDS ==
  << <<"C","O","M","P","A","N","Y">>,  \* COMPANY
     <<"G","R","O","U","P">>,  \* GROUP
     <<"H","O","L","D","I","N","G","S">>,  \* HOLDINGS
     <<"P","R","O","P","E","R","T","I","E","S">>,  \* PROPERTIES
     <<"I","N","V","E","S","T","M","E","N","T","S">> >>  \* INVESTMENTS

is_bank_lender(lender_name) ==
  lender_name # None /\ lender_name # <<>> /\ AnyIn(FN_BANK_KEYWORDS, Upper(lender_name))

is_bank_or_servicer(lender_name) ==
  lender_name # None /\ lender_name # <<>> /\ AnyIn(BANK_SERVICER_KEYWORDS, Upper(lender_name))

EndsWith(s, suffix) ==
  Len(suffix) <= Len(s) /\ SubSeq(s, Len(s) - Len(suffix) + 1, Len(s)) = suffix

\* name_upper.endswith(f" {suffix}") or name_upper.endswith(f", {suffix}") or
\* f" {suffix}" in name_upper or f", {suffix}" in name_upper, for any suffix.
HasSuffixOf(name_upper, suffixes) ==
  \E i \in 1..Len(suffixes) :
    \/ EndsWith(name_upper, <<" ">> \o suffixes[i])
    \/ EndsWith(name_upper, <<",", " ">> \o suffixes[i])
    \/ Contains(name_upper, <<" ">> \o suffixes[i])
    \/ Contains(name_upper, <<",", " ">> \o suffixes[i])

\* The part of detect_owner_type / detect_lender_type after the bank check.
detect_non_bank_type(name) ==
  LET name_upper == Upper(Strip(name))
  IN  IF AnyIn(TRUST_LENDER_KEYWORDS, name_upper) THEN "TRUST"
      ELSE IF HasSuffixOf(name_upper, LLC_SUFFIXES) THEN "LLC"
      ELSE IF HasSuffixOf(name_upper, corporate_suffixes) THEN "LLC"
      ELSE IF Contains(name, <<",">>) THEN "PERSON"
      ELSE IF Len(name) < 50 /\ ~AnyIn(CORPORATE_WORDS, name_upper) THEN "PERSON"
      ELSE "UNKNOWN"

\* filter_notes.detect_owner_type
FN_detect_owner_type(name) ==
  IF name = None \/ name = <<>> \/ Strip(name) = <<>> THEN "UNKNOWN"
  ELSE IF is_bank_lender(name) THEN "BANK"
  ELSE detect_non_bank_type(name)

\* filter_private_notes.detect_lender_type
detect_lender_type(lender_name) ==
  IF lender_name = None \/ lender_name = <<>> \/ Strip(lender_name) = <<>> THEN "UNKNOWN"
  ELSE IF is_bank_or_servicer(lender_name) THEN "BANK"
  ELSE detect_non_bank_type(lender_name)

is_seller_finance_doc(doc_type) ==
  doc_type # None /\ doc_type # <<>> /\ AnyIn(SELLER_FINANCE_KEYWORDS, Upper(doc_type))

is_preferred_doc_type(doc_type) ==
  doc_type # None /\ doc_type # <<>> /\ AnyIn(PREFERRED_DOC_TYPES, Upper(doc_type))

is_discard_doc_type(doc_type) ==
  doc_type # None /\ doc_type # <<>> /\ AnyIn(DISCARD_DOC_TYPES, Upper(doc_type))

\* Python's max(0, min(100, score)).
Clamp(score) == IF score < 0 THEN 0 ELSE IF score > 100 THEN 100 ELSE score

\* reasons[:n]
FirstN(reasons, n) == SubSeq(reasons, 1, IF Len(reasons) < n THEN Len(reasons) ELSE n)

\* The outcome of a scoring call; why_flagged is the list that " + " joins.
Scored(score, why_flagged) == [exc |-> "", score |-> score, why_flagged |-> why_flagged]

ScoreRaised(e) == [exc |-> e, score |-> 0, why_flagged |-> <<>>]

\* The signed weight and the reason of each signal of filter_notes.calculate_lead_score.
FN_owner_signal(owner_type) ==
  CASE owner_type = "PERSON" -> <<40, "person lender">>
    [] owner_type = "LLC"    -> <<25, "LLC lender">>
    [] owner_type = "TRUST"  -> <<20, "trust lender">>
    [] OTHER                 -> <<10, "unknown owner type">>

FN_amount_signal(loan_amount) ==
  IF loan_amount # NoValue /\ loan_amount[1] # 0
  THEN LET a == loan_amount[1]
       IN  IF 10000 <= a /\ a < 100000 THEN <<<<25, "small amount">>>>
           ELSE IF 100000 <= a /\ a < 300000 THEN <<<<30, "medium amount">>>>
           ELSE IF 300000 <= a /\ a < MAX_LOAN_AMOUNT THEN <<<<20, "large amount">>>>
           ELSE IF a < 10000 THEN <<<<10, "very small amount">>>>
           ELSE <<>>
  ELSE <<<<0 - 20, "missing loan amount">>>>

FN_doc_signal(doc_type, is_seller_finance) ==
  IF is_seller_finance THEN <<25, "seller finance doc">>
  ELSE IF doc_type # <<>> /\ doc_type # None THEN <<10, "other doc type">>
  ELSE <<0 - 10, "missing doc type">>

FN_age_signal(recording_age) ==
  IF recording_age # NoValue /\ recording_age[1] # 0
  THEN LET d == recording_age[1]
       IN  IF ~AgeLT(d, 3) /\ AgeLE(d, 10) THEN <<10, "recent recording">>
           ELSE IF ~AgeLE(d, 10) /\ AgeLE(d, 20) THEN <<5, "older recording">>
           ELSE IF AgeLT(d, 3) THEN <<0 - 5, "very recent">>
           ELSE <<0 - 10, "very old">>
  ELSE <<0 - 5, "missing date">>

RECURSIVE SumWeights(_)
SumWeights(signals) ==
  IF signals = <<>> THEN 0 ELSE signals[1][1] + SumWeights(Tail(signals))

Reasons(signals) == [i \in 1..Len(signals) |-> signals[i][2]]

\* filter_notes.calculate_lead_score
FN_calculate_lead_score(owner_type, loan_amount, doc_type, recording_age, is_seller_finance) ==
  LET signals == <<FN_owner_signal(owner_type)>> \o FN_amount_signal(loan_amount)
                 \o <<FN_doc_signal(doc_type, is_seller_finance), FN_age_signal(recording_age)>>
  IN  IF owner_type = "BANK" THEN Scored(0, <<"bank lender">>)
      ELSE Scored(Clamp(SumWeights(signals)), FirstN(Reasons(signals), 5))

----------------------------------------------------------------------------
(* generate_property_targets.calculate_lead_score                          *)

PT_owner_signal(owner_type) ==
  CASE owner_type = "PERSON" -> <<40, "person owner">>
    [] owner_type = "LLC"    -> <<30, "LLC owner">>
    [] owner_type = "TRUST"  -> <<25, "trust owner">>
    [] OTHER                 -> <<10, "unknown owner type">>

PT_value_signal(total_value, min_value, max_value) ==
  IF total_value # NoValue /\ total_value[1] # 0
  THEN IF min_value <= total_value[1] /\ total_value[1] <= max_value THEN <<30, "value in range">>
       ELSE IF total_value[1] < min_value THEN <<10, "below min value">>
       ELSE <<15, "above max value">>
  ELSE <<0 - 10, "missing value">>

PT_calculate_lead_score(owner_type, total_value, is_absentee, min_value, max_value) ==
  LET signals == << PT_owner_signal(owner_type),
                    IF is_absentee THEN <<30, "absentee owner">> ELSE <<10, "owner occupied">>,
                    PT_value_signal(total_value, min_value, max_value) >>
  IN  Scored(Clamp(SumWeights(signals)), FirstN(Reasons(signals), 4))

----------------------------------------------------------------------------
(* scripts/note_broker_refine.py                                           *)

NOTE_SWEET_SPOT_MIN == 150000

NOTE_SWEET_SPOT_MAX == 400000

WEIGHT_ABSENTEE_STRONG == 30

WEIGHT_ABSENTEE_WEAK == 15

WEIGHT_EMAIL == 25

WEIGHT_PHONE == 20

WEIGHT_STREET_ADDRESS == 10

WEIGHT_MULTIPLE_PROPERTIES == 15

WEIGHT_NOTE_SWEET_SPOT == 20

WEIGHT_SIMPLE_NAME == 10

po_box_indicators ==
  << <<"P","O"," ","B","O","X">>,  \* PO BOX
     <<"P",".","O","."," ","B","O","X">>,  \* P.O. BOX
     <<"P"," ","O"," ","B","O","X">>,  \* P O BOX
     <<"P","O","B","O","X">>,  \* POBOX
     <<"B","O","X"," ">>,  \* BOX 
     <<"P","M","B">>,  \* PMB
     <<"S","U","I","T","E">> >>  \* SUITE

complex_patterns ==
  << <<"T","R","U","S","T">>,  \* TRUST
     <<"E","S","T","A","T","E">>,  \* ESTATE
     <<"H","E","I","R","S">>,  \* HEIRS
     <<"E","T"," ","A","L">>,  \* ET AL
     <<"E","T","C">>,  \* ETC
     <<"U","N","K","N","O","W","N">> >>  \* UNKNOWN

\* Python's (a or b) on strings and None.
PyOr(a, b) == IF a = None \/ a = <<>> THEN b ELSE a

\* The columns whose value some called function strips or upper-cases without
\* a guard: a None there raises AttributeError.
Unguarded(row, keys) == \E k \in keys : k \in DOMAIN row /\ row[k] = None

\* row.get("email", "") or row.get("Email", "")
email_of(row) == PyOr(RowGet(row, "email", <<>>), RowGet(row, "Email", <<>>))

phone_of(row) == PyOr(RowGet(row, "phone", <<>>), RowGet(row, "Phone", <<>>))

has_email(row) == Strip(email_of(row)) # <<>> /\ Contains(Strip(email_of(row)), <<"@">>)

has_phone(row) == Strip(phone_of(row)) # <<>> /\ Len(Strip(phone_of(row))) >= 10

is_street_address(address) ==
  address # None /\ address # <<>> /\ ~AnyIn(po_box_indicators, Upper(address))

\* row.get(key, "").strip().upper()
StripUpper(row, key) == Upper(Strip(RowGet(row, key, <<>>)))

is_strong_absentee(row) ==
  LET mailing_city  == StripUpper(row, "mailing_city")
      mailing_state == StripUpper(row, "mailing_state")
      situs_city    == StripUpper(row, "situs_city")
      situs_state   == StripUpper(row, "situs_state")
  IN  IF mailing_city = <<>> \/ situs_city = <<>> THEN FALSE
      ELSE IF mailing_state # <<>> /\ situs_state # <<>> /\ mailing_state # situs_state THEN TRUE
      ELSE mailing_city # situs_city

is_weak_absentee(row) ==
  LET mailing_address == StripUpper(row, "mailing_address")
      situs_address   == StripUpper(row, "situs_address")
      mailing_city    == StripUpper(row, "mailing_city")
      situs_city      == StripUpper(row, "situs_city")
  IN  IF mailing_address = <<>> \/ situs_address = <<>> THEN FALSE
      ELSE mailing_city = situs_city /\ mailing_address # situs_address

is_simple_name(name) ==
  name # None /\ name # <<>> /\ Len(name) <= 60 /\ ~AnyIn(complex_patterns, Upper(name))

is_in_note_sweet_spot(total_value) ==
  total_value # NoValue
  /\ NOTE_SWEET_SPOT_MIN <= total_value[1] /\ total_value[1] <= NOTE_SWEET_SPOT_MAX

\* int(text): NoValue stands for ValueError.
ToInt(text) == ToNumber(text)

\* The exception calculate_engagement_score raises on the row, "" when none:
\* None.strip() in has_email / has_phone / is_strong_absentee / is_weak_absentee,
\* int() of a text that is no integer.
NBR_score_exception(row) ==
  IF email_of(row) = None \/ phone_of(row) = None THEN "AttributeError"
  ELSE IF Unguarded(row, {"mailing_city", "mailing_state", "situs_city", "situs_state"})
  THEN "AttributeError"
  ELSE IF ~is_strong_absentee(row) /\ Unguarded(row, {"mailing_address", "situs_address"})
  THEN "AttributeError"
  ELSE IF ToInt(PyOr(RowGet(row, "property_count", <<"1">>), <<"1">>)) = NoValue
  THEN "ValueError"
  ELSE ""

\* The signals of calculate_engagement_score, in the order they are appended;
\* a weight of 0 is a reason that adds nothing.
NBR_signals(row) ==
  LET property_count == ToInt(PyOr(RowGet(row, "property_count", <<"1">>), <<"1">>))[1]
      total_value    == parse_amount(RowGet(row, "total_value", <<>>))
      owner_name     == PyOr(RowGet(row, "full_name", <<>>), RowGet(row, "company_name", <<>>))
  IN  << IF has_email(row) THEN <<WEIGHT_EMAIL, "has email">> ELSE <<0, "no email">>,
         IF has_phone(row) THEN <<WEIGHT_PHONE, "has phone">> ELSE <<0, "no phone">>,
         IF is_street_address(RowGet(row, "mailing_address", <<>>))
         THEN <<WEIGHT_STREET_ADDRESS, "street address">> ELSE <<0, "PO box or missing">>,
         IF is_strong_absentee(row) THEN <<WEIGHT_ABSENTEE_STRONG, "strong absentee">>
         ELSE IF is_weak_absentee(row) THEN <<WEIGHT_ABSENTEE_WEAK, "weak absentee">>
         ELSE <<0, "owner occupied">> >>
      \o (IF property_count >= 3 THEN <<<<WEIGHT_MULTIPLE_PROPERTIES, "N properties">>>>
          ELSE IF property_count = 2 THEN <<<<WEIGHT_MULTIPLE_PROPERTIES \div 2, "2 properties">>>>
          ELSE <<>>)
      \o (IF is_in_note_sweet_spot(total_value)
          THEN <<<<WEIGHT_NOTE_SWEET_SPOT, "note sweet spot value">>>> ELSE <<>>)
      \o (IF is_simple_name(owner_name) THEN <<<<WEIGHT_SIMPLE_NAME, "simple name">>>> ELSE <<>>)

ScoreFrom(signals, n) == Scored(Clamp(SumWeights(signals)), FirstN(Reasons(signals), n))

EngagementResult(exception, row) ==
  IF exception # "" THEN ScoreRaised(exception) ELSE ScoreFrom(NBR_signals(row), 6)

calculate_engagement_score(row) == EngagementResult(NBR_score_exception(row), row)

----------------------------------------------------------------------------
(* Inputs of the scoring functions                                         *)

OwnerTypes == {"PERSON", "LLC", "TRUST", "BANK", "UNKNOWN"}

\* Rows of a targets file as calculate_engagement_score reads them.
EngagementRows ==
  {MkRow([email |-> em, Email |-> em2, phone |-> ph,
          mailing_address |-> ma, situs_address |-> <<"1"," ","M","A","I","N"," ","S","T">>,
          mailing_city |-> mc, situs_city |-> <<"A","U","S","T","I","N">>,
          mailing_state |-> <<"T","X">>, situs_state |-> <<"T","X">>,
          property_count |-> cnt, total_value |-> tv, full_name |-> fn]) :
     em  \in {Absent, None, <<"a","@","b",".","c">>},
     em2 \in {Absent, None},
     ph  \in {Absent, <<"5","1","2","5","5","5","0","1","0","0">>, <<"5","5","5">>},
     ma  \in {<<"1"," ","M","A","I","N"," ","S","T">>, <<"2"," ","O","A","K"," ","S","T">>, <<"P","O"," ","B","O","X"," ","9">>},
     mc  \in {<<"A","U","S","T","I","N">>, <<"d","a","l","l","a","s">>, None},
     cnt \in {Absent, <<>>, <<"2">>, <<"3">>, <<"a","b","c">>},
     tv  \in {<<"$","2","0","0",",","0","0","0">>, <<"a","b","c">>},
     fn  \in {<<"J","O","H","N"," ","S","M","I","T","H">>, <<"S","M","I","T","H"," ","T","R","U","S","T">>}}

ScoreCalls ==
  [fn : {"filter_notes.calculate_lead_score"},
   owner_type : OwnerTypes,
   loan_amount : {NoValue, Some(0 - 5), Some(0), Some(5000), Some(50000), Some(150000),
                  Some(400000), Some(600000)},
   doc_type : {<<>>, <<"N","O","T","E">>, <<"D","E","E","D">>},
   recording_age : {NoValue, Some(0 - 56), Some(0), Some(1095), Some(1826), Some(5479), Some(7306)},
   is_seller_finance : BOOLEAN]
  \cup
  [fn : {"generate_property_targets.calculate_lead_score"},
   owner_type : {"PERSON", "LLC", "TRUST", "UNKNOWN"},
   total_value : {NoValue, Some(0), Some(100000), Some(300000), Some(700000)},
   is_absentee : BOOLEAN,
   min_value : {150000}, max_value : {600000}]
  \cup
  [fn : {"note_broker_refine.calculate_engagement_score"}, row : EngagementRows]

ScoreOf(call) ==
  CASE call.fn = "filter_notes.calculate_lead_score" ->
         FN_calculate_lead_score(call.owner_type, call.loan_amount, call.doc_type,
                                 call.recording_age, call.is_seller_finance)
    [] call.fn = "generate_property_targets.calculate_lead_score" ->
         PT_calculate_lead_score(call.owner_type, call.total_value, call.is_absentee,
                                 call.min_value, call.max_value)
    [] OTHER -> calculate_engagement_score(call.row)

InitScore ==
  /\ prog = "score"
  /\ args \in ScoreCalls
  /\ result = [exc |-> "not called", score |-> 0, why_flagged |-> <<>>]
  /\ StagesIdle

CallScore ==
  /\ prog = "score"
  /\ result.exc = "not called"
  /\ result' = ScoreOf(args)
  /\ UNCHANGED <<prog, pc, rowsRead, counts, streams, cur, args>>

SpecScore == InitScore /\ [][CallScore]_vars

\* C3: every scoring function returns, for every combination of its inputs,
\* an integer score with 0 <= score <= 100.
C3_ScoreWithinBounds ==
  (prog = "score" /\ result.exc # "not called") =>
    (result.exc = "" /\ result.score \in 0..100)

----------------------------------------------------------------------------
(* classify_row of filter_notes and of filter_private_notes                *)

\* get_field inside classify_row: the row's value of the csv column the
\* canonical field is mapped to, "" when the field is not mapped.
get_field(row, column_mapping, canonical_name) ==
  IF canonical_name \in DOMAIN column_mapping
  THEN RowGet(row, column_mapping[canonical_name], <<>>)
  ELSE <<>>

Classified(classification, lender_type, reason) ==
  [exc |-> "", classification |-> classification, lender_type |-> lender_type, reason |-> reason]

ClassifyRaised(e) == [exc |-> e, classification |-> "", lender_type |-> "", reason |-> ""]

\* A variant of the common rules that tests the amount before the age limit.
common_rules_AmountFirst(lender_name, loan_amount, doc_type, recording_age) ==
  IF is_discard_doc_type(doc_type)
    THEN <<"DISCARD", "Document type indicates release/satisfaction">>
  ELSE IF loan_amount = NoValue /\ lender_name = <<>> /\ doc_type = <<>>
    THEN <<"DISCARD", "Missing all critical fields (loan_amount, lender_name, doc_type)">>
  ELSE IF loan_amount = NoValue THEN <<"REVIEW", "Missing loan_amount">>
  ELSE IF loan_amount[1] <= 0 THEN <<"DISCARD", "Invalid loan amount">>
  ELSE IF loan_amount[1] >= MAX_LOAN_AMOUNT THEN <<"REVIEW", "Loan amount too large">>
  ELSE IF recording_age # NoValue /\ ~AgeLE(recording_age[1], MAX_AGE_YEARS)
    THEN <<"DISCARD", "Recording too old">>
  ELSE IF lender_name = <<>> THEN <<"REVIEW", "Missing lender_name">>
  ELSE IF recording_age = NoValue THEN <<"REVIEW", "Missing or unparseable recording_date">>
  ELSE IF AgeLT(recording_age[1], MIN_AGE_YEARS) THEN <<"REVIEW", "Recording too recent">>
  ELSE <<"", "">>

\* The rules shared by the two classify_row functions, from the release /
\* satisfaction rule down to the recording age rules. "" when none fires.
common_rules(lender_name, loan_amount, doc_type, recording_age) ==
  IF is_discard_doc_type(doc_type)
    THEN <<"DISCARD", "Document type indicates release/satisfaction">>
  ELSE IF loan_amount = NoValue /\ lender_name = <<>> /\ doc_type = <<>>
    THEN <<"DISCARD", "Missing all critical fields (loan_amount, lender_name, doc_type)">>
  ELSE IF recording_age # NoValue /\ ~AgeLE(recording_age[1], MAX_AGE_YEARS)
    THEN <<"DISCARD", "Recording too old">>
  ELSE IF loan_amount = NoValue THEN <<"REVIEW", "Missing loan_amount">>
  ELSE IF loan_amount[1] <= 0 THEN <<"DISCARD", "Invalid loan amount">>
  ELSE IF loan_amount[1] >= MAX_LOAN_AMOUNT THEN <<"REVIEW", "Loan amount too large">>
  ELSE IF lender_name = <<>> THEN <<"REVIEW", "Missing lender_name">>
  ELSE IF recording_age = NoValue THEN <<"REVIEW", "Missing or unparseable recording_date">>
  ELSE IF AgeLT(recording_age[1], MIN_AGE_YEARS) THEN <<"REVIEW", "Recording too recent">>
  ELSE <<"", "">>

\* classify_row's "Extract mapped values": .strip() of a field that reads
\* None raises.
fields_raise(row, column_mapping) ==
  \/ get_field(row, column_mapping, "lender_name") = None
  \/ get_field(row, column_mapping, "doc_type") = None

lender_name_of(row, column_mapping) == Strip(get_field(row, column_mapping, "lender_name"))

doc_type_of(row, column_mapping) == Strip(get_field(row, column_mapping, "doc_type"))

loan_amount_of(row, column_mapping) == parse_amount(get_field(row, column_mapping, "loan_amount"))

recording_age_of(row, column_mapping) ==
  recording_age_days(get_field(row, column_mapping, "recording_date"))

\* The rules of a row as common_rules finds them.
row_rule(row, column_mapping) ==
  common_rules(lender_name_of(row, column_mapping), loan_amount_of(row, column_mapping),
               doc_type_of(row, column_mapping), recording_age_of(row, column_mapping))

\* A variant of the filter_notes decision that tests for a bank after the
\* other rules.
FN_decide_BankLast(is_bank, rule) ==
  IF rule[1] # "" THEN Classified(rule[1], "", rule[2])
  ELSE IF is_bank
    THEN Classified("DISCARD", "", "Lender is a bank or large financial institution")
  ELSE Classified("LEAD", "", "Meets all criteria for seller-finance note lead")

\* filter_notes.classify_row after the fields are extracted: the bank rule,
\* then the common rules, then LEAD.
FN_decide(is_bank, rule) ==
  IF is_bank
    THEN Classified("DISCARD", "", "Lender is a bank or large financial institution")
  ELSE IF rule[1] # "" THEN Classified(rule[1], "", rule[2])
  ELSE Classified("LEAD", "", "Meets all criteria for seller-finance note lead")

\* filter_notes.classify_row (it returns no lender type)
FN_classify_row(row, column_mapping) ==
  IF fields_raise(row, column_mapping) THEN ClassifyRaised("AttributeError")
  ELSE FN_decide(is_bank_lender(lender_name_of(row, column_mapping)),
                 row_rule(row, column_mapping))

\* filter_private_notes.classify_row after the fields are extracted.
FPN_decide(lender_type, rule, preferred) ==
  IF lender_type = "BANK"
    THEN Classified("DISCARD", lender_type, "Lender is a bank or servicer")
  ELSE IF rule[1] # "" THEN Classified(rule[1], lender_type, rule[2])
  ELSE IF ~preferred /\ lender_type = "LLC"
    THEN Classified("REVIEW", lender_type, "LLC lender without preferred doc type")
  ELSE Classified("LEAD", lender_type, "Meets all criteria for private note lead")

\* filter_private_notes.classify_row
FPN_classify_row(row, column_mapping) ==
  IF fields_raise(row, column_mapping) THEN ClassifyRaised("AttributeError")
  ELSE FPN_decide(detect_lender_type(lender_name_of(row, column_mapping)),
                  row_rule(row, column_mapping),
                  is_preferred_doc_type(doc_type_of(row, column_mapping)))

\* The owner type and the score build_email_ready_row computes for a row.
FN_row_owner_type(row, column_mapping) ==
  FN_detect_owner_type(lender_name_of(row, column_mapping))

FN_row_score(row, column_mapping) ==
  FN_calculate_lead_score(FN_row_owner_type(row, column_mapping),
                          loan_amount_of(row, column_mapping),
                          doc_type_of(row, column_mapping),
                          recording_age_of(row, column_mapping),
                          is_seller_finance_doc(doc_type_of(row, column_mapping)))

----------------------------------------------------------------------------
(* One recorder row through the rules of the two note pipelines            *)

RecorderColumns == {"lender_name", "loan_amount", "doc_type", "recording_date"}

\* map_columns' result: canonical field -> csv column of the recorder file.
ColumnMappings ==
  { [f \in RecorderColumns |-> f], [f \in RecorderColumns \ {"recording_date"} |-> f] }

LenderNames ==
  { <<"W","E","L","L","S"," ","F","A","R","G","O"," ","B","A","N","K",","," ","N",".","A",".">>, <<"c","h","a","s","e">>, <<" ","W","e","l","l","s"," ","F","a","r","g","o"," ">>, <<"F","I","R","S","T"," ","T","R","U","S","T"," ","B","A","N","K">>, <<"S","M","I","T","H"," ","F","A","M","I","L","Y"," ","T","R","U","S","T">>, <<"A","C","M","E"," ","H","O","L","D","I","N","G","S"," ","L","L","C">>, <<"L","O","A","N"," ","S","E","R","V","I","C","E"," ","C","O">>, <<"J","O","H","N"," ","S","M","I","T","H">>, <<>>, None }

RecorderRows ==
  {MkRow([lender_name |-> ln, loan_amount |-> la, doc_type |-> dt, recording_date |-> rd]) :
     ln \in LenderNames,
     la \in {Absent, <<>>, <<"a","b","c">>, <<"0">>, <<"-","5">>, <<"$","5","0",",","0","0","0">>, <<"6","0","0","0","0","0">>},
     dt \in {<<>>, None, <<"L","I","E","N">>, <<"R","E","L","E","A","S","E"," ","O","F"," ","L","I","E","N">>, <<"N","O","T","E">>},
     rd \in {Absent, <<"x">>, <<"2","0","2","3","-","1","1","-","0","7">>, <<"1","1","/","0","6","/","2","0","2","1">>, <<"2","0","0","6","-","1","1","-","0","6">>, <<"2","0","0","6","-","1","1","-","0","5">>}}

NoteRowResult(pipeline, c, owner_type, score) ==
  [exc |-> c.exc, pipeline |-> pipeline, classification |-> c.classification,
   owner_type |-> owner_type, score |-> score, reason |-> c.reason]

InitNoteRow ==
  /\ prog = "note_row"
  /\ args \in [row : RecorderRows, column_mapping : ColumnMappings]
  /\ result = [exc |-> "not called"]
  /\ StagesIdle

\* filter_notes: classify_row, and the owner type and score that
\* build_email_ready_row computes from the same fields.
CallFilterNotesRow ==
  /\ prog = "note_row"
  /\ result.exc = "not called"
  /\ LET c == FN_classify_row(args.row, args.column_mapping)
     IN  result' = IF c.exc # "" THEN NoteRowResult("filter_notes", c, "", 0)
                   ELSE NoteRowResult("filter_notes", c,
                                      FN_row_owner_type(args.row, args.column_mapping),
                                      FN_row_score(args.row, args.column_mapping).score)
  /\ UNCHANGED <<prog, pc, rowsRead, counts, streams, cur, args>>

\* filter_private_notes: classify_row, which has no score.
CallFilterPrivateNotesRow ==
  /\ prog = "note_row"
  /\ result.exc = "not called"
  /\ LET c == FPN_classify_row(args.row, args.column_mapping)
     IN  result' = NoteRowResult("filter_private_notes", c, c.lender_type, 0)
  /\ UNCHANGED <<prog, pc, rowsRead, counts, streams, cur, args>>

SpecNoteRow == InitNoteRow /\ [][CallFilterNotesRow \/ CallFilterPrivateNotesRow]_vars

\* C6: a row whose lender is classified BANK (detect_owner_type in
\* filter_notes, detect_lender_type in filter_private_notes) is classified
\* DISCARD by classify_row, never LEAD or REVIEW, and calculate_lead_score
\* gives it 0, whatever its loan amount, document type and recording date;
\* "WELLS FARGO BANK, N.A." is such a lender.
C6_BankHardExclude ==
  (prog = "note_row" /\ result.exc = "") =>
    /\ result.owner_type = "BANK" =>
         (result.classification = "DISCARD" /\ result.score = 0)
    /\ args.row.lender_name = <<"W","E","L","L","S"," ","F","A","R","G","O"," ","B","A","N","K",","," ","N",".","A",".">> => result.owner_type = "BANK"

\* A bank row with an in-range amount, a note document and an age in range
\* (everything else would make it a lead) has been classified.
C6_Witness ==
  /\ prog = "note_row" /\ result.exc = ""
  /\ result.pipeline = "filter_notes"
  /\ args.row.lender_name = <<"W","E","L","L","S"," ","F","A","R","G","O"," ","B","A","N","K",","," ","N",".","A",".">>
  /\ RowGet(args.row, "loan_amount", <<>>) = <<"$","5","0",",","0","0","0">>
  /\ args.row.doc_type = <<"N","O","T","E">>
  /\ RowGet(args.row, "recording_date", <<>>) = <<"1","1","/","0","6","/","2","0","2","1">>
  /\ result.owner_type = "BANK" /\ result.classification = "DISCARD" /\ result.score = 0

\* The fields of the classified row as classify_row extracts them.
RowLender == lender_name_of(args.row, args.column_mapping)

RowAmount == loan_amount_of(args.row, args.column_mapping)

RowDocType == doc_type_of(args.row, args.column_mapping)

RowAge == recording_age_of(args.row, args.column_mapping)

\* The rule list of C20: the outcome of each rule, in order, and whether rule
\* i matches a row.
RuleOutcomes ==
  <<"DISCARD", "DISCARD", "DISCARD", "DISCARD", "REVIEW", "DISCARD",
    "REVIEW", "REVIEW", "REVIEW", "REVIEW", "REVIEW", "LEAD">>

RuleMatches(i, pipeline, lender, amount, doc_type, age) ==
  CASE i = 1 -> IF pipeline = "filter_notes" THEN is_bank_lender(lender)
                ELSE detect_lender_type(lender) = "BANK"
    [] i = 2 -> is_discard_doc_type(doc_type)
    [] i = 3 -> amount = NoValue /\ lender = <<>> /\ doc_type = <<>>
    [] i = 4 -> age # NoValue /\ 4 * Head(age \o <<0>>) > 1461 * 20
    [] i = 5 -> amount = NoValue
    [] i = 6 -> amount # NoValue /\ Head(amount \o <<1>>) <= 0
    [] i = 7 -> amount # NoValue /\ Head(amount \o <<0>>) >= 500000
    [] i = 8 -> lender = <<>>
    [] i = 9 -> age = NoValue
    [] i = 10 -> age # NoValue /\ 4 * Head(age \o <<0>>) < 1461 * 3
    [] i = 11 -> /\ pipeline = "filter_private_notes"
                 /\ detect_lender_type(lender) = "LLC"
                 /\ ~is_preferred_doc_type(doc_type)
    [] OTHER -> TRUE

\* The outcome of the first rule from i on that matches.
RECURSIVE FirstMatching(_, _, _, _, _, _)
FirstMatching(i, pipeline, lender, amount, doc_type, age) ==
  IF RuleMatches(i, pipeline, lender, amount, doc_type, age) THEN RuleOutcomes[i]
  ELSE FirstMatching(i + 1, pipeline, lender, amount, doc_type, age)

\* C20: classify_row evaluates its rules in one fixed order and the first
\* matching rule decides: bank lender, release/satisfaction document, all of
\* amount, lender and document type missing, age over 20 years (DISCARD);
\* amount missing (REVIEW); amount <= 0 (DISCARD); amount >= 500000, lender
\* missing, date missing or unparseable, age under 3 years (REVIEW); in
\* filter_private_notes an LLC lender without a preferred document type
\* (REVIEW); otherwise LEAD. The classification classify_row returns is the
\* outcome of the first rule of this list that matches the row.
C20_FirstMatchingRuleDecides ==
  (prog = "note_row" /\ result.exc = "") =>
    result.classification =
      FirstMatching(1, result.pipeline, RowLender, RowAmount, RowDocType, RowAge)

\* A row that is both too old and over the amount ceiling, that no earlier
\* rule matches, has been classified DISCARD.
C20_Witness ==
  /\ prog = "note_row" /\ result.exc = ""
  /\ RowAmount # NoValue /\ Head(RowAmount \o <<0>>) >= 500000
  /\ RowAge # NoValue /\ 4 * Head(RowAge \o <<0>>) > 1461 * 20
  /\ \A i \in 1..3 : ~RuleMatches(i, result.pipeline, RowLender, RowAmount, RowDocType, RowAge)
  /\ result.classification = "DISCARD"

----------------------------------------------------------------------------
(* csv.DictReader and csv.DictWriter as the stages use them                *)

\* The key under which csv.DictReader keeps the cells beyond the header
\* (restkey, which is None in Python).
RestKey == "<restkey>"

\* The row csv.DictReader yields for a line of cells under the header
\* fieldnames: a column without a cell reads None (restval), cells beyond
\* the header are kept under restkey.
DictReaderRow(fieldnames, cells) ==
  LET cols == {fieldnames[i] : i \in 1..Len(fieldnames)}
      keys == IF Len(cells) > Len(fieldnames) THEN cols \cup {RestKey} ELSE cols
      at(k) == CHOOSE i \in 1..Len(fieldnames) : fieldnames[i] = k
  IN  [k \in keys |->
         IF k = RestKey THEN <<"extra cells">>
         ELSE IF at(k) <= Len(cells) THEN cells[at(k)] ELSE None]

\* csv.DictWriter.writerow raises ValueError for a key outside its fieldnames.
writer_rejects(row_keys, fieldnames) == \E k \in row_keys : k \notin fieldnames

Columns(header) == {header[i] : i \in 1..Len(header)}

\* The first k cells of a line.
FirstCells(cells, k) == SubSeq(cells, 1, k)

----------------------------------------------------------------------------
(* note_broker_refine: classify_for_note_broker                            *)

TierOf(exc, classification) == [exc |-> exc, classification |-> classification]

\* A variant of the tier rule that gives the top tier on the score alone.
NBR_tier_ScoreOnly(s, has_contact_info) ==
  IF s.exc # "" THEN TierOf(s.exc, "")
  ELSE IF s.score >= 60 THEN TierOf("", "HIGH_PRIORITY")
  ELSE IF s.score >= 50 THEN TierOf("", "MEDIUM_PRIORITY")
  ELSE IF s.score >= 30 THEN TierOf("", "LOW_PRIORITY")
  ELSE TierOf("", "REVIEW")

NBR_tier(s, has_contact_info) ==
  IF s.exc # "" THEN TierOf(s.exc, "")
  ELSE IF has_contact_info /\ s.score >= 60 THEN TierOf("", "HIGH_PRIORITY")
  ELSE IF s.score >= 50 THEN TierOf("", "MEDIUM_PRIORITY")
  ELSE IF s.score >= 30 THEN TierOf("", "LOW_PRIORITY")
  ELSE TierOf("", "REVIEW")

classify_for_note_broker(row) ==
  NBR_tier(calculate_engagement_score(row), has_email(row) \/ has_phone(row))

\* The columns process_targets_file adds to the input columns.
NBR_added_columns ==
  {"engagement_score", "engagement_reason", "equity_estimate", "has_email", "has_phone",
   "contact_quality"}

\* The body of the row loop of process_targets_file up to the write: the
\* exception that ends it, or the tier whose writer and counter take the row.
NBR_checked(c, rejected) ==
  IF c.exc # "" THEN c
  ELSE IF rejected THEN TierOf("ValueError", c.classification)
  ELSE c

NBR_row_outcome(row, input_columns) ==
  NBR_checked(classify_for_note_broker(row),
              writer_rejects(DOMAIN row \cup NBR_added_columns,
                             Columns(input_columns) \cup NBR_added_columns))

NBR_stream(classification) ==
  CASE classification = "HIGH_PRIORITY"   -> "note_broker_high_priority.csv"
    [] classification = "MEDIUM_PRIORITY" -> "note_broker_medium_priority.csv"
    [] classification = "LOW_PRIORITY"    -> "note_broker_low_priority.csv"
    [] OTHER                              -> "note_broker_review.csv"

NBR_count(classification) ==
  CASE classification = "HIGH_PRIORITY"   -> "high"
    [] classification = "MEDIUM_PRIORITY" -> "medium"
    [] classification = "LOW_PRIORITY"    -> "low"
    [] OTHER                              -> "review"

TargetsHeader ==
  <<"full_name", "mailing_address", "mailing_city", "mailing_state", "situs_address",
    "situs_city", "situs_state", "total_value", "property_count", "email", "phone">>

\* Lines of a targets file: complete, with a cell too many, without the two
\* contact cells, and cut after the mailing address.
TargetsLines ==
  LET full == { <<fn, m[1], m[2], <<"T","X">>, <<"1"," ","M","A","I","N"," ","S","T">>, <<"A","U","S","T","I","N">>, <<"T","X">>, tv, cnt, c[1], c[2]>> :
                  fn  \in {<<"J","O","H","N"," ","S","M","I","T","H">>, <<"S","M","I","T","H"," ","T","R","U","S","T">>},
                  m   \in {<<<<"2"," ","O","A","K"," ","S","T">>, <<"d","a","l","l","a","s">>>>, <<<<"P","O"," ","B","O","X"," ","9">>, <<"A","U","S","T","I","N">>>>},
                  tv  \in {<<"$","2","0","0",",","0","0","0">>, <<>>},
                  cnt \in {<<>>, <<"a","b","c">>},
                  c   \in {<<<<>>, <<>>>>, <<<<"a","@","b",".","c">>, <<"5","1","2","5","5","5","0","1","0","0">>>>} }
  IN  full \cup {l \o <<<<"x">>>> : l \in full}
           \cup {FirstCells(l, 9) : l \in full} \cup {FirstCells(l, 2) : l \in full}

----------------------------------------------------------------------------
(* classify_entity_roles: the row loop of process_entity_classification    *)

get_output_file_for_role(entity_role) ==
  CASE entity_role \in {"INVESTOR_ENTITY", "TRUST_ENTITY"} -> "note_broker_investor_priority.csv"
    [] entity_role = "LEGAL_ENTITY" -> "note_broker_legal_review.csv"
    [] entity_role \in {"BANK_INSTITUTION", "GOVERNMENT_ENTITY", "UTILITY_OR_NONPROFIT"}
         -> "note_broker_excluded_entities.csv"
    [] OTHER -> "note_broker_individual_priority.csv"

ER_added_columns == {"entity_role", "role_score_modifier", "role_reason"}

\* The body of the row loop: role_counts is incremented right after
\* classify_entity_role returns; parse_engagement_score strips the
\* engagement_score cell; the row that is written always carries the key
\* engagement_score, whether or not the input has that column.
ER_checked(c, score_is_None, rejected) ==
  IF c.exc # "" THEN [exc |-> c.exc, classification |-> "", counted |-> FALSE]
  ELSE IF score_is_None
  THEN [exc |-> "AttributeError", classification |-> c.role, counted |-> TRUE]
  ELSE IF rejected
  THEN [exc |-> "ValueError", classification |-> c.role, counted |-> TRUE]
  ELSE [exc |-> "", classification |-> c.role, counted |-> TRUE]

ER_row_outcome(row, input_columns) ==
  ER_checked(classify_entity_role(row),
             RowGet(row, "engagement_score", <<>>) = None,
             writer_rejects(DOMAIN row \cup ER_added_columns \cup {"engagement_score"},
                            Columns(input_columns) \cup ER_added_columns))

EntityHeaders ==
  { <<"full_name", "owner_type", "engagement_score">>, <<"full_name", "owner_type">> }

\* Lines of an entity file, of one to four cells.
EntityLines ==
  LET full == { <<n, ot, es>> :
                  n  \in { <<"B","A","N","K">>, <<"C","I","T","Y"," ","O","F">>, <<"W","A","T","E","R">>, <<"T","R","U","S","T">>, <<"H","O","L","D","I","N","G","S">>, <<"L","A","W">>, <<"S","M","I","T","H">>, <<>> },
                  ot \in { <<"P","E","R","S","O","N">>, <<"L","L","C">> },
                  es \in { <<"5","0">>, <<"a","b","c">> } }
  IN  full \cup {l \o <<<<"x">>>> : l \in full}
           \cup {FirstCells(l, 2) : l \in full} \cup {FirstCells(l, 1) : l \in full}

----------------------------------------------------------------------------
(* The row loops of the two recorder stages                                *)

\* filter_private_notes.process_recorder_file: lender_type_counter is
\* incremented before the row is written.
FPN_checked(c, rejected) ==
  IF c.exc # "" THEN [exc |-> c.exc, classification |-> "", lender_type |-> ""]
  ELSE IF rejected
  THEN [exc |-> "ValueError", classification |-> c.classification, lender_type |-> c.lender_type]
  ELSE [exc |-> "", classification |-> c.classification, lender_type |-> c.lender_type]

FPN_row_outcome(row, column_mapping, input_columns) ==
  FPN_checked(FPN_classify_row(row, column_mapping),
              writer_rejects(DOMAIN row, Columns(input_columns)))

\* build_email_ready_row (and the apn lookup before it) strips these fields
\* of a LEAD row without a guard.
FN_lead_fields == {"property_address", "property_city", "property_state", "property_zip", "apn"}

\* filter_notes.process_recorder_file, run without a TCAD file: a LEAD row
\* is rebuilt by build_email_ready_row, a REVIEW or DISCARD row is written
\* as read.
FN_checked(c, lead_raises, rejected) ==
  IF c.exc # "" THEN [exc |-> c.exc, classification |-> ""]
  ELSE IF c.classification = "LEAD"
  THEN [exc |-> IF lead_raises THEN "AttributeError" ELSE "", classification |-> "LEAD"]
  ELSE [exc |-> IF rejected THEN "ValueError" ELSE "", classification |-> c.classification]

FN_row_outcome(row, column_mapping, input_columns) ==
  FN_checked(FN_classify_row(row, column_mapping),
             \E f \in FN_lead_fields : get_field(row, column_mapping, f) = None,
             writer_rejects(DOMAIN row, Columns(input_columns)))

\* The files a filter_notes row of this classification is written to.
FN_files_EmailOnly(classification) ==
  CASE classification = "LEAD"   -> {"note_leads_email_ready.csv"}
    [] classification = "REVIEW" -> {"review_queue.csv"}
    [] OTHER                     -> {"discarded.csv"}

FN_files(classification) ==
  CASE classification = "LEAD"   -> {"note_leads_email_ready.csv", "note_leads_mail_ready.csv"}
    [] classification = "REVIEW" -> {"review_queue.csv"}
    [] OTHER                     -> {"discarded.csv"}

FPN_stream(classification) ==
  CASE classification = "LEAD"   -> "private_note_leads.csv"
    [] classification = "REVIEW" -> "review_queue.csv"
    [] OTHER                     -> "discarded.csv"

NoteCount(classification) ==
  CASE classification = "LEAD"   -> "leads"
    [] classification = "REVIEW" -> "review"
    [] OTHER                     -> "discarded"

RecorderHeader == <<"lender_name", "loan_amount", "doc_type", "recording_date", "property_address">>

RecorderMapping == [f \in Columns(RecorderHeader) |-> f]

\* Lines of a recorder file: complete, with a cell too many, without the
\* property address, and with the lender only.
RecorderLines ==
  LET full == { <<ln, la, dt, rd, <<"1"," ","M","A","I","N"," ","S","T">>>> :
                  ln \in { <<"W","E","L","L","S"," ","F","A","R","G","O"," ","B","A","N","K",","," ","N",".","A",".">>, <<"J","O","H","N"," ","S","M","I","T","H">>, <<"A","C","M","E"," ","H","O","L","D","I","N","G","S"," ","L","L","C">> },
                  la \in { <<"$","5","0",",","0","0","0">>, <<>> },
                  dt \in { <<"N","O","T","E">>, <<"L","I","E","N">> },
                  rd \in { <<"1","1","/","0","6","/","2","0","2","1">>, <<"2","0","2","3","-","1","1","-","0","7">> } }
  IN  full \cup {l \o <<<<"x">>>> : l \in full}
           \cup {FirstCells(l, 4) : l \in full} \cup {FirstCells(l, 1) : l \in full}

----------------------------------------------------------------------------
(* The four row-routing stages as state machines                           *)

\* At most this many rows are read from an input file.
MaxRows == 3

Stages == {"note_broker_refine", "filter_private_notes", "classify_entity_roles", "filter_notes"}

StageFiles(p) ==
  CASE p = "note_broker_refine" ->
         {"note_broker_high_priority.csv", "note_broker_medium_priority.csv",
          "note_broker_low_priority.csv", "note_broker_review.csv"}
    [] p = "filter_private_notes" ->
         {"private_note_leads.csv", "review_queue.csv", "discarded.csv"}
    [] p = "classify_entity_roles" ->
         {"note_broker_investor_priority.csv", "note_broker_individual_priority.csv",
          "note_broker_legal_review.csv", "note_broker_excluded_entities.csv"}
    [] OTHER ->
         {"note_leads_email_ready.csv", "note_leads_mail_ready.csv", "review_queue.csv",
          "discarded.csv"}

\* The keys of the stage's counts dictionary (role_counts is a Counter: a
\* role that was never counted reads 0).
StageTiers(p) ==
  CASE p = "note_broker_refine" -> {"high", "medium", "low", "review"}
    [] p = "classify_entity_roles" -> EntityRoles
    [] OTHER -> {"leads", "review", "discarded"}

StageHeaders(p) ==
  CASE p = "note_broker_refine" -> {TargetsHeader}
    [] p = "classify_entity_roles" -> EntityHeaders
    [] OTHER -> {RecorderHeader}

NoRow == [n |-> 0, classification |-> "", exc |-> ""]

InitStages ==
  /\ prog \in Stages
  /\ pc = "run"
  /\ rowsRead = 0
  /\ counts = [by_tier |-> [t \in StageTiers(prog) |-> 0],
               lender_type_counter |->
                 [t \in (IF prog = "filter_private_notes" THEN OwnerTypes ELSE {}) |-> 0]]
  /\ streams = [f \in StageFiles(prog) |-> <<>>]
  /\ cur = NoRow
  /\ args \in [input_columns : StageHeaders(prog), column_mapping : {RecorderMapping}]
  /\ result = [exc |-> "running"]

\* writerow of row number n on the writers of these files.
Written(files, n) ==
  [f \in DOMAIN streams |-> IF f \in files THEN Append(streams[f], n) ELSE streams[f]]

\* The end of a pass of a row loop on row rowsRead + 1: the row is written
\* to files, or the exception exc leaves the loop and the function.
RowDone(exc, classification, files, counts_after) ==
  /\ cur' = [n |-> rowsRead + 1, classification |-> classification, exc |-> exc]
  /\ counts' = counts_after
  /\ IF exc = ""
     THEN /\ streams' = Written(files, rowsRead + 1)
          /\ UNCHANGED <<pc, result>>
     ELSE /\ pc' = "aborted"
          /\ result' = [exc |-> exc]
          /\ UNCHANGED streams
  /\ rowsRead' = rowsRead + 1
  /\ UNCHANGED <<prog, args>>

Counted(key) == [counts EXCEPT !.by_tier[key] = @ + 1]

TargetsRowDone(o) ==
  RowDone(o.exc, o.classification, {NBR_stream(o.classification)},
          IF o.exc = "" THEN Counted(NBR_count(o.classification)) ELSE counts)

\* note_broker_refine.process_targets_file, one pass of the row loop.
ProcessTargetsRow ==
  /\ prog = "note_broker_refine" /\ pc = "run" /\ rowsRead < MaxRows
  /\ \E cells \in TargetsLines :
       TargetsRowDone(NBR_row_outcome(DictReaderRow(args.input_columns, cells),
                                      args.input_columns))

EntityRowDone(o) ==
  RowDone(o.exc, o.classification, {get_output_file_for_role(o.classification)},
          IF o.counted THEN Counted(o.classification) ELSE counts)

\* classify_entity_roles.process_entity_classification, one pass of the row loop.
ProcessEntityRow ==
  /\ prog = "classify_entity_roles" /\ pc = "run" /\ rowsRead < MaxRows
  /\ \E cells \in EntityLines :
       EntityRowDone(ER_row_outcome(DictReaderRow(args.input_columns, cells),
                                    args.input_columns))

LenderTypeCounted(c, lender_type) ==
  IF lender_type = "" THEN c ELSE [c EXCEPT !.lender_type_counter[lender_type] = @ + 1]

PrivateNoteRowDone(o) ==
  RowDone(o.exc, o.classification, {FPN_stream(o.classification)},
          LenderTypeCounted(IF o.exc = "" THEN Counted(NoteCount(o.classification)) ELSE counts,
                            o.lender_type))

\* filter_private_notes.process_recorder_file, one pass of the row loop.
ProcessPrivateNoteRow ==
  /\ prog = "filter_private_notes" /\ pc = "run" /\ rowsRead < MaxRows
  /\ \E cells \in RecorderLines :
       PrivateNoteRowDone(FPN_row_outcome(DictReaderRow(args.input_columns, cells),
                                          args.column_mapping, args.input_columns))

NoteRowDone(o) ==
  RowDone(o.exc, o.classification, FN_files(o.classification),
          IF o.exc = "" THEN Counted(NoteCount(o.classification)) ELSE counts)

\* filter_notes.process_recorder_file, one pass of the row loop.
ProcessNoteRow ==
  /\ prog = "filter_notes" /\ pc = "run" /\ rowsRead < MaxRows
  /\ \E cells \in RecorderLines :
       NoteRowDone(FN_row_outcome(DictReaderRow(args.input_columns, cells),
                                  args.column_mapping, args.input_columns))

\* The reader is exhausted: the files are closed and the counts returned.
EndOfInput ==
  /\ prog \in Stages /\ pc = "run"
  /\ pc' = "eof"
  /\ result' = [exc |-> "", counts |-> counts.by_tier]
  /\ UNCHANGED <<prog, rowsRead, counts, streams, cur, args>>

NextStages ==
  \/ ProcessTargetsRow
  \/ ProcessEntityRow
  \/ ProcessPrivateNoteRow
  \/ ProcessNoteRow
  \/ EndOfInput

SpecStages == InitStages /\ [][NextStages]_vars

----------------------------------------------------------------------------
(* Rows and output files                                                   *)

\* The output files that hold row number n, and how often a file holds it.
FilesHolding(n) ==
  {f \in DOMAIN streams : \E i \in 1..Len(streams[f]) : streams[f][i] = n}

TimesIn(f, n) == Cardinality({i \in 1..Len(streams[f]) : streams[f][i] = n})

RECURSIVE SumOver(_, _)
SumOver(f, S) ==
  IF S = {} THEN 0
  ELSE LET x == CHOOSE x \in S : TRUE IN f[x] + SumOver(f, S \ {x})

C1_Stages == {"note_broker_refine", "filter_private_notes", "classify_entity_roles"}

\* C1: in the three tiering stages every row read is assigned one tier and
\* written exactly once, to one stream; after any number of rows the per-tier
\* counts sum to the number of rows read.
C1_TierPartition ==
  prog \in C1_Stages =>
    /\ SumOver(counts.by_tier, DOMAIN counts.by_tier) = rowsRead
    /\ \A n \in 1..rowsRead :
         /\ Cardinality(FilesHolding(n)) = 1
         /\ \A f \in FilesHolding(n) : TimesIn(f, n) = 1

C2_LeadFiles == {"note_leads_email_ready.csv", "note_leads_mail_ready.csv"}

----------------------------------------------------------------------------
(* merge_enrichment                                                        *)

\* output_row[key] = value on a copy of the row.
SetKey(row, key, value) ==
  [k \in DOMAIN row \cup {key} |-> IF k = key THEN value ELSE row[k]]

\* load_enrichment_results' loop: the rows with a non-empty stripped lead_id,
\* keyed by it, a later row replacing an earlier one with the same key.
RECURSIVE LoadRows(_, _)
LoadRows(rows, enrichment_lookup) ==
  IF rows = <<>> THEN enrichment_lookup
  ELSE IF Strip(RowGet(Head(rows), "lead_id", <<>>)) = <<>>
  THEN LoadRows(Tail(rows), enrichment_lookup)
  ELSE LoadRows(Tail(rows),
                SetKey(enrichment_lookup, Strip(RowGet(Head(rows), "lead_id", <<>>)), Head(rows)))

\* row.get("lead_id", "").strip() raises on a row whose lead_id cell is missing.
load_raises(file) ==
  /\ file.exists
  /\ \E i \in 1..Len(file.lines) :
       RowGet(DictReaderRow(file.header, file.lines[i]), "lead_id", <<>>) = None

\* load_enrichment_results: an empty lookup when the file does not exist.
load_enrichment_results(file) ==
  IF ~file.exists THEN <<>>
  ELSE LoadRows([i \in 1..Len(file.lines) |-> DictReaderRow(file.header, file.lines[i])], <<>>)

\* Lines 107-111 (and 115-119): the stripped secondary value when it is not
\* empty, else "" when the row has no such key, else the row as it is.
contact_merged(output_row, field, value) ==
  IF value # <<>> THEN SetKey(output_row, field, value)
  ELSE IF field \notin DOMAIN output_row THEN SetKey(output_row, field, <<>>)
  ELSE output_row

Merged(exc, matched, with_email, with_phone, output_row) ==
  [exc |-> exc, matched |-> matched, with_email |-> with_email, with_phone |-> with_phone,
   output_row |-> output_row]

Flag(b) == IF b THEN 1 ELSE 0

\* writer.writerow(output_row)
merge_written(o, output_columns) ==
  IF o.exc = "" /\ writer_rejects(DOMAIN o.output_row, output_columns)
  THEN [o EXCEPT !.exc = "ValueError"] ELSE o

\* The branch of a row whose lead_id is in the lookup.
merge_matched(row, email, phone) ==
  IF email = None THEN Merged("AttributeError", "matched", 0, 0, row)
  ELSE IF phone = None
  THEN Merged("AttributeError", "matched", Flag(Strip(email) # <<>>), 0, row)
  ELSE Merged("", "matched", Flag(Strip(email) # <<>>), Flag(Strip(phone) # <<>>),
              contact_merged(contact_merged(row, "email", Strip(email)), "phone", Strip(phone)))

\* A variant of the other branch that overwrites the contact fields with "".
merge_unmatched_Blank(row) ==
  Merged("", "unmatched", 0, 0, SetKey(SetKey(row, "email", <<>>), "phone", <<>>))

\* The branch of a row whose lead_id is not in the lookup.
merge_unmatched(row) ==
  Merged("", "unmatched", 0, 0,
         contact_merged(contact_merged(row, "email", <<>>), "phone", <<>>))

merge_branch(row, lead_id, enrichment_lookup) ==
  IF lead_id \in DOMAIN enrichment_lookup
  THEN merge_matched(row, RowGet(enrichment_lookup[lead_id], "email", <<>>),
                     RowGet(enrichment_lookup[lead_id], "phone", <<>>))
  ELSE merge_unmatched(row)

\* One pass of merge_enrichment's row loop after total_rows was incremented.
merge_row(row, enrichment_lookup, output_columns) ==
  IF RowGet(row, "lead_id", <<>>) = None THEN Merged("AttributeError", "", 0, 0, row)
  ELSE merge_written(merge_branch(row, Strip(RowGet(row, "lead_id", <<>>)), enrichment_lookup),
                     output_columns)

\* lead_columns plus the enrichment columns that are not among them.
OutputColumns(lead_columns) == Columns(lead_columns) \cup {"email", "phone"}

\* At most this many rows are in an enrichment file.
MaxEnrichRows == 2

EnrichmentHeader == <<"lead_id", "email", "phone">>

\* Lines of an enrichment file: a full record, one with a blank email and no
\* phone, one cut after the email, one with a padded lead_id.
EnrichmentLines ==
  { <<<<"L","1">>, <<"n","e","w","@","x",".","y">>, <<"5","1","2","5","5","5","0","1","0","0">>>>, <<<<"L","2">>, <<" ">>, <<>>>>, <<<<"L","1">>, <<"n","e","w","@","x",".","y">>>>, <<<<" ","L","2"," ">>, <<>>, <<"9","9","9">>>> }

EnrichmentFiles ==
  {[exists |-> FALSE, header |-> EnrichmentHeader, lines |-> <<>>]}
  \cup [exists : {TRUE}, header : {EnrichmentHeader},
        lines : SeqsUpTo(EnrichmentLines, MaxEnrichRows)]

LeadHeaders == { <<"lead_id", "full_name", "email", "phone">>, <<"lead_id", "full_name">> }

\* Lines of a leads file, of two to five cells.
LeadLines ==
  { <<<<"L","1">>, <<"J","O","H","N">>, <<"o","l","d","@","x",".","y">>, <<"1","1","1">>>>, <<<<"L","1">>, <<"J","O","H","N">>, <<>>, <<>>>>, <<<<"L","2">>, <<"A","N","N">>, <<"o","l","d","@","x",".","y">>, <<>>>>,
    <<<<"L","3">>, <<"B","O","B">>, <<"o","l","d","@","x",".","y">>, <<"1","1","1">>>>, <<<<"L","3">>, <<"B","O","B">>, <<>>, <<>>>>, <<<<"L","1">>, <<"J","O","H","N">>>>, <<<<"L","2">>, <<"A","N","N">>>>,
    <<<<"L","2">>, <<"A","N","N">>, <<>>, <<>>, <<"x">>>> }

NoMergedRow == [n |-> 0, row |-> <<>>, output_row |-> <<>>, matched |-> "", exc |-> ""]

InitMerge ==
  /\ prog = "merge_enrichment"
  /\ pc = "load"
  /\ rowsRead = 0
  /\ counts = [total_rows |-> 0, matched |-> 0, unmatched |-> 0, with_email |-> 0, with_phone |-> 0]
  /\ streams = [output |-> <<>>]
  /\ cur = NoMergedRow
  /\ args \in [lead_columns : LeadHeaders, enrichment : EnrichmentFiles, enrichment_lookup : {<<>>}]
  /\ result = [exc |-> "running"]

Loaded(raises, lookup) ==
  IF raises
  THEN /\ pc' = "aborted"
       /\ result' = [exc |-> "AttributeError"]
       /\ UNCHANGED args
  ELSE /\ pc' = "run"
       /\ args' = [args EXCEPT !.enrichment_lookup = lookup]
       /\ UNCHANGED result

\* merge_enrichment up to its row loop: the lookup is loaded, the output
\* file is opened and its header written.
LoadEnrichment ==
  /\ prog = "merge_enrichment" /\ pc = "load"
  /\ Loaded(load_raises(args.enrichment),
            IF load_raises(args.enrichment) THEN <<>> ELSE load_enrichment_results(args.enrichment))
  /\ UNCHANGED <<prog, rowsRead, counts, streams, cur>>

MergeRowDone(row, o) ==
  /\ rowsRead' = rowsRead + 1
  /\ counts' = [total_rows |-> counts.total_rows + 1,
                matched    |-> counts.matched + Flag(o.matched = "matched"),
                unmatched  |-> counts.unmatched + Flag(o.matched = "unmatched"),
                with_email |-> counts.with_email + o.with_email,
                with_phone |-> counts.with_phone + o.with_phone]
  /\ cur' = [n |-> rowsRead + 1, row |-> row, output_row |-> o.output_row,
             matched |-> o.matched, exc |-> o.exc]
  /\ IF o.exc = ""
     THEN /\ streams' = [streams EXCEPT !.output = Append(@, rowsRead + 1)]
          /\ UNCHANGED <<pc, result>>
     ELSE /\ pc' = "aborted"
          /\ result' = [exc |-> o.exc]
          /\ UNCHANGED streams
  /\ UNCHANGED <<prog, args>>

MergeLine(row) ==
  MergeRowDone(row, merge_row(row, args.enrichment_lookup, OutputColumns(args.lead_columns)))

\* merge_enrichment, one pass of the row loop.
MergeRow ==
  /\ prog = "merge_enrichment" /\ pc = "run" /\ rowsRead < MaxRows
  /\ \E cells \in LeadLines : MergeLine(DictReaderRow(args.lead_columns, cells))

\* The leads file is exhausted: merge_enrichment returns counts.
MergeEnd ==
  /\ prog = "merge_enrichment" /\ pc = "run"
  /\ pc' = "eof"
  /\ result' = [exc |-> "", counts |-> counts]
  /\ UNCHANGED <<prog, rowsRead, counts, streams, cur, args>>

NextMerge == LoadEnrichment \/ MergeRow \/ MergeEnd

SpecMerge == InitMerge /\ [][NextMerge]_vars

\* C8 -- merge_enrichment never drops or duplicates a primary record: after
\* any prefix of the leads file the rows written to the output, the rows
\* read, counts.total_rows and counts.matched + counts.unmatched are equal.
C8_RowCountPreserved ==
  prog = "merge_enrichment" =>
    /\ Len(streams.output) = rowsRead
    /\ rowsRead = counts.total_rows
    /\ counts.total_rows = counts.matched + counts.unmatched

\* The row of the last pass was written to the output file.
MergedRowWritten == prog = "merge_enrichment" /\ cur.n > 0 /\ cur.exc = ""

\* The stripped secondary value of a contact field for the row of the last
\* pass, "" when its lead_id is not in the lookup.
SecondaryValue(field) ==
  IF Strip(cur.row["lead_id"]) \in DOMAIN args.enrichment_lookup
  THEN Strip(args.enrichment_lookup[Strip(cur.row["lead_id"])][field])
  ELSE <<>>

\* C9 as stated -- a row whose lead_id is not in the lookup is written with
\* the empty string in both contact fields.
C9_UnmatchedContactBlank ==
  (MergedRowWritten /\ cur.matched = "unmatched") =>
    (cur.output_row["email"] = <<>> /\ cur.output_row["phone"] = <<>>)

\* C9 -- every written row has the keys of the primary row plus email and
\* phone; each key other than email and phone keeps the primary value; email
\* and phone, each on its own, take the stripped secondary value when the
\* lead_id is in the lookup and that value is not empty, and otherwise keep
\* the primary value when the primary row has the key and are "" when not.
C9_ContactRule ==
  MergedRowWritten =>
    /\ DOMAIN cur.output_row = DOMAIN cur.row \cup {"email", "phone"}
    /\ \A k \in DOMAIN cur.row \ {"email", "phone"} : cur.output_row[k] = cur.row[k]
    /\ \A f \in {"email", "phone"} :
         cur.output_row[f] = IF SecondaryValue(f) # <<>> THEN SecondaryValue(f)
                             ELSE IF f \in DOMAIN cur.row THEN cur.row[f]
                             ELSE <<>>

\* A row with a primary email whose lead_id is not in a non-empty lookup was
\* written with that email.
C9_Witness ==
  /\ MergedRowWritten /\ cur.matched = "unmatched"
  /\ args.enrichment_lookup # <<>>
  /\ "email" \in DOMAIN cur.row /\ cur.row["email"] = <<"o","l","d","@","x",".","y">>
  /\ cur.output_row["email"] = <<"o","l","d","@","x",".","y">>

-----------------------------------------------------------------------------
(* main.py: parse_line, process_property_file                              *)

\* Field name -> <<start_pos, end_pos>>, 1-based and inclusive.
FIELD_SPECS ==
  [account_id |-> <<1, 12>>, owner_name |-> <<609, 678>>, situs_city |-> <<1110, 1139>>,
   situs_state |-> <<924, 925>>, situs_zip |-> <<1140, 1149>>,
   mailing_address |-> <<694, 753>>, mailing_city |-> <<874, 923>>,
   mailing_state |-> <<924, 925>>, mailing_zip |-> <<979, 983>>,
   property_type |-> <<13, 17>>, land_value |-> <<1796, 1810>>,
   improvement_value |-> <<1826, 1840>>, total_value |-> <<1916, 1930>>,
   assessed_year |-> <<18, 22>>, situs_street_prefx |-> <<1040, 1049>>,
   situs_street |-> <<1050, 1099>>, situs_street_suffix |-> <<1100, 1109>>]

REQUIRED_COLUMNS ==
  <<"account_id", "owner_name", "situs_address", "situs_city", "situs_state", "situs_zip",
    "mailing_address", "mailing_city", "mailing_state", "mailing_zip", "property_type",
    "land_value", "improvement_value", "total_value", "assessed_year">>

numeric_fields == <<"land_value", "improvement_value", "total_value">>

\* max(end for _, end in FIELD_SPECS.values())
max_end_pos ==
  CHOOSE m \in {FIELD_SPECS[f][2] : f \in DOMAIN FIELD_SPECS} :
    \A f \in DOMAIN FIELD_SPECS : FIELD_SPECS[f][2] <= m

\* parse_numeric_field: None (NoValue) for an empty value and for one that
\* float() does not take after "," "$" and " " were removed.
parse_numeric_field(value) ==
  IF value = <<>> \/ Strip(value) = <<>> THEN NoValue
  ELSE ToNumber(Without(Strip(value), {",", "$", " "}))

spec_field(line, field_name) ==
  extract_field(line, FIELD_SPECS[field_name][1], FIELD_SPECS[field_name][2])

\* The non-empty ones of prefix, street and suffix joined with one space.
situs_address_of(line) ==
  Strip(JoinSpace(SelectSeq(<<spec_field(line, "situs_street_prefx"),
                              spec_field(line, "situs_street"),
                              spec_field(line, "situs_street_suffix")>>,
                            LAMBDA part : part # <<>>)))

first_two(value) == IF Len(value) > 2 THEN Strip(SubSeq(value, 1, 2)) ELSE value

record_field(line, field_name) ==
  IF field_name = "situs_address" THEN situs_address_of(line)
  ELSE IF field_name \in DOMAIN FIELD_SPECS
  THEN IF field_name \in {"situs_state", "mailing_state"}
       THEN first_two(spec_field(line, field_name))
       ELSE spec_field(line, field_name)
  ELSE <<>>

record_of(line) == [f \in Columns(REQUIRED_COLUMNS) |-> record_field(line, f)]

\* The pieces of the two messages of parse_line, numbers left unformatted.
too_short_message(line_number, got) ==
  <<"Line ", line_number, ": ", "Line too short (expected at least ", max_end_pos,
    " chars, got ", got, ")">>

numeric_message(line_number, field_name, value) ==
  <<"Line ", line_number, ": ", "Failed to parse numeric field '", field_name, "': '", value, "'">>

\* The errors list of parse_line: one message for each numeric field, in the
\* order of numeric_fields, that is not empty and does not parse.
numeric_errors(record, line_number) ==
  LET failing == SelectSeq(numeric_fields,
                           LAMBDA f : record[f] # <<>> /\ parse_numeric_field(record[f]) = NoValue)
  IN  [i \in 1..Len(failing) |-> numeric_message(line_number, failing[i], record[failing[i]])]

Parsed(record, error_msg) == [record |-> record, error_msg |-> error_msg]

\* A variant without the length check: a short line is read as far as it goes.
parse_line_Truncating(line, line_number) ==
  Parsed(record_of(line), numeric_errors(record_of(line), line_number))

\* parse_line: error_msg is the list of the messages that the code joins
\* with "; ", and <<>> stands for None.
parse_line(line, line_number) ==
  IF Len(line) < max_end_pos
  THEN Parsed(<<>>, <<too_short_message(line_number, Len(line))>>)
  ELSE Parsed(record_of(line), numeric_errors(record_of(line), line_number))

\* A variant that also takes every short line for blank.
is_blank_OrShort(line) == Len(line) < max_end_pos \/ \A i \in 1..Len(line) : line[i] \in Whitespace

\* not line.strip()
is_blank(line) == \A i \in 1..Len(line) : line[i] \in Whitespace

\* A fixed-width line of n characters holding the given field texts at the
\* positions of FIELD_SPECS, blank elsewhere.
FixedLine(cells, n) ==
  [p \in 1..n |->
     IF \E f \in DOMAIN cells :
          FIELD_SPECS[f][1] <= p /\ p - FIELD_SPECS[f][1] + 1 <= Len(cells[f])
     THEN LET f == CHOOSE f \in DOMAIN cells :
                     FIELD_SPECS[f][1] <= p /\ p - FIELD_SPECS[f][1] + 1 <= Len(cells[f])
          IN  cells[f][p - FIELD_SPECS[f][1] + 1]
     ELSE " "]

PropertyCells(land_value, total_value) ==
  [account_id |-> <<"0","0","0","0","0","0","0","1","2","3","4","5">>, owner_name |-> <<"S","M","I","T","H"," ","J","O","H","N">>, situs_street |-> <<"M","A","I","N">>,
   situs_street_suffix |-> <<"S","T">>, land_value |-> land_value, total_value |-> total_value]

\* Input lines without their line terminator: well-formed ones of exactly
\* and of more than max_end_pos characters, ones cut short, blank ones of 0,
\* 3 and max_end_pos characters, and ones with numeric fields that do not
\* parse.
PropertyLines ==
  { FixedLine(PropertyCells(<<"1","0","0","0","0","0">>, <<"2","5","0","0","0","0">>), max_end_pos),
    FixedLine(PropertyCells(<<"1",",","2","0","0">>, <<"$","1","2"," ","3","4">>), max_end_pos + 5),
    FixedLine(PropertyCells(<<"1","0","0","0","0","0">>, <<"2","5","0","0","0","0">>), max_end_pos - 1),
    FixedLine(PropertyCells(<<"1","0","0","0","0","0">>, <<"2","5","0","0","0","0">>), 12),
    <<>>, <<" ", "\t", " ">>,
    [p \in 1..max_end_pos |-> " "],
    FixedLine(PropertyCells(<<"1","0","0","0","0","0">>, <<"N","/","A">>), max_end_pos),
    FixedLine(PropertyCells(<<"a","b","c">>, <<"N","/","A">>), max_end_pos + 5) }

NoLine == [n |-> 0, line |-> <<>>, outcome |-> ""]

InitProperty ==
  /\ prog = "process_property_file"
  /\ pc = "run"
  /\ rowsRead = 0
  /\ counts = [clean_count |-> 0, error_count |-> 0]
  /\ streams = [clean |-> <<>>, errors |-> <<>>]
  /\ cur = NoLine
  /\ args = <<>>
  /\ result = [exc |-> "running"]

\* One pass of the loop of process_property_file for a line that is not
\* blank. A row of the clean stream is the record, with the line number next
\* to it; a row of the error stream is (line_number, line_content,
\* error_reason).
LineParsed(line, parsed) ==
  IF parsed.error_msg # <<>>
  THEN /\ streams' = [streams EXCEPT !.errors = Append(@, <<rowsRead + 1, line, parsed.error_msg>>)]
       /\ counts' = [counts EXCEPT !.error_count = @ + 1]
       /\ cur' = [n |-> rowsRead + 1, line |-> line, outcome |-> "error"]
  ELSE /\ streams' = [streams EXCEPT !.clean = Append(@, [n |-> rowsRead + 1, record |-> parsed.record])]
       /\ counts' = [counts EXCEPT !.clean_count = @ + 1]
       /\ cur' = [n |-> rowsRead + 1, line |-> line, outcome |-> "clean"]

LineRead(line) ==
  /\ rowsRead' = rowsRead + 1
  /\ IF is_blank(line)
     THEN /\ cur' = [n |-> rowsRead + 1, line |-> line, outcome |-> "skipped"]
          /\ UNCHANGED <<streams, counts>>
     ELSE LineParsed(line, parse_line(line, rowsRead + 1))
  /\ UNCHANGED <<prog, pc, args, result>>

ProcessPropertyLine ==
  /\ prog = "process_property_file" /\ pc = "run" /\ rowsRead < MaxRows
  /\ \E line \in PropertyLines : LineRead(line)

\* The input is exhausted: the three totals are printed.
PropertyEnd ==
  /\ prog = "process_property_file" /\ pc = "run"
  /\ pc' = "eof"
  /\ result' = [exc |-> "", total_lines |-> rowsRead, clean_count |-> counts.clean_count,
                error_count |-> counts.error_count]
  /\ UNCHANGED <<prog, rowsRead, counts, streams, cur, args>>

NextProperty == ProcessPropertyLine \/ PropertyEnd

SpecProperty == InitProperty /\ [][NextProperty]_vars

\* The rows that line number n has in the clean and in the error stream.
CleanRowsOf(n) == {i \in 1..Len(streams.clean) : streams.clean[i].n = n}

ErrorRowsOf(n) == {i \in 1..Len(streams.errors) : streams.errors[i][1] = n}

LastLineRead == prog = "process_property_file" /\ cur.n > 0

LastLineBlank == \A i \in 1..Len(cur.line) : cur.line[i] \in Whitespace

\* C11 as stated -- every line shorter than the largest end position of
\* FIELD_SPECS that process_property_file reads is in the error stream.
C11_ShortLineInErrorStream ==
  (LastLineRead /\ Len(cur.line) < 1930) => ErrorRowsOf(cur.n) # {}

\* C11 -- the largest end position is 1930; for a line shorter than that
\* parse_line returns no record and the one reason "Line <n>: Line too short
\* (expected at least 1930 chars, got <length>)"; process_property_file
\* writes such a line with that reason to the error stream and not to the
\* clean stream when the line is not blank, and to neither when it is blank.
C11_ShortLineRejected ==
  (LastLineRead /\ Len(cur.line) < 1930) =>
    /\ max_end_pos = 1930
    /\ parse_line(cur.line, cur.n).record = <<>>
    /\ parse_line(cur.line, cur.n).error_msg =
         << <<"Line ", cur.n, ": ", "Line too short (expected at least ", 1930,
              " chars, got ", Len(cur.line), ")">> >>
    /\ CleanRowsOf(cur.n) = {}
    /\ IF LastLineBlank THEN ErrorRowsOf(cur.n) = {}
       ELSE /\ Cardinality(ErrorRowsOf(cur.n)) = 1
            /\ streams.errors[Len(streams.errors)] =
                 <<cur.n, cur.line, parse_line(cur.line, cur.n).error_msg>>

\* A line one character short of the largest end position was written to
\* the error stream.
C11_Witness ==
  /\ LastLineRead /\ Len(cur.line) = 1929 /\ ~LastLineBlank
  /\ cur.outcome = "error" /\ ErrorRowsOf(cur.n) # {}

IsPrefix(s, t) == Len(s) <= Len(t) /\ SubSeq(t, 1, Len(s)) = s

C12_Rows ==
  prog = "process_property_file" =>
    /\ pc \in {"run", "eof"} /\ result.exc \in {"running", ""}
    /\ counts.clean_count = Len(streams.clean)
    /\ counts.error_count = Len(streams.errors)
    /\ \A i \in 1..Len(streams.clean) : streams.clean[i].n \in 1..rowsRead
    /\ \A i \in 1..Len(streams.errors) :
         /\ Len(streams.errors[i]) = 3
         /\ streams.errors[i][1] \in 1..rowsRead
         /\ streams.errors[i][3] # <<>>
    /\ \A n \in 1..rowsRead : Cardinality(CleanRowsOf(n)) + Cardinality(ErrorRowsOf(n)) <= 1
    /\ cur.n > 0 =>
         /\ cur.n = rowsRead
         /\ IF LastLineBlank
            THEN CleanRowsOf(cur.n) = {} /\ ErrorRowsOf(cur.n) = {}
            ELSE /\ Cardinality(CleanRowsOf(cur.n)) + Cardinality(ErrorRowsOf(cur.n)) = 1
                 /\ \A i \in ErrorRowsOf(cur.n) : streams.errors[i][2] = cur.line
    /\ pc = "eof" =>
         /\ result.exc = "" /\ result.total_lines = rowsRead
         /\ result.clean_count + result.error_count = Len(streams.clean) + Len(streams.errors)

C12_Step ==
  /\ IsPrefix(streams.clean, streams'.clean)
  /\ IsPrefix(streams.errors, streams'.errors)
  /\ Len(streams'.clean) + Len(streams'.errors) <= Len(streams.clean) + Len(streams.errors) + 1

\* C12 -- process_property_file never aborts on a line: every line read
\* that is not blank has exactly one row, in the clean or in the error
\* stream, a blank line has none, rows once written stay, an error row is
\* (line number, line content, reason), and clean_count + error_count is the
\* number of rows written, hence of the lines that are not blank, at every
\* point and at end of file.
C12_OneRowPerLine == []C12_Rows /\ [][C12_Step]_vars

\* A finished run of three lines with a clean row, an error row and a
\* skipped blank line.
C12_Witness ==
  /\ prog = "process_property_file" /\ pc = "eof" /\ rowsRead = 3
  /\ Len(streams.clean) = 1 /\ Len(streams.errors) = 1
  /\ result.clean_count + result.error_count = 2

\* C19 -- a value error is never a failure: a record with a numeric field
\* that does not parse is still written to the clean stream and is not
\* routed to the error stream.
C19_UnparseableNotRejected ==
  ( /\ LastLineRead /\ ~LastLineBlank /\ Len(cur.line) >= 1930
    /\ \E i \in 1..Len(numeric_fields) :
         /\ record_of(cur.line)[numeric_fields[i]] # <<>>
         /\ parse_numeric_field(record_of(cur.line)[numeric_fields[i]]) = NoValue )
  => (ErrorRowsOf(cur.n) = {} /\ CleanRowsOf(cur.n) # {})

-----------------------------------------------------------------------------
(* scripts/group_by_owner.py, scripts/group_investor_entities.py           *)

\* str(n) for n >= 0.
RECURSIVE IntStr(_)
IntStr(n) == IF n < 10 THEN <<Digits[n + 1]>> ELSE IntStr(n \div 10) \o <<Digits[(n % 10) + 1]>>

\* f"{n:,}" for n >= 0.
RECURSIVE Commas(_)
Commas(n) ==
  IF n < 1000 THEN IntStr(n)
  ELSE Commas(n \div 1000) \o <<",">> \o
       <<Digits[((n \div 100) % 10) + 1], Digits[((n \div 10) % 10) + 1], Digits[(n % 10) + 1]>>

\* sep.join(parts)
RECURSIVE Join(_, _)
Join(parts, sep) ==
  IF parts = <<>> THEN <<>>
  ELSE IF Len(parts) = 1 THEN parts[1]
  ELSE parts[1] \o sep \o Join(Tail(parts), sep)

\* A key computed from a row, or the exception raised on the way.
Keyed(exc, key) == [exc |-> exc, key |-> key]

\* group_by_owner.normalize_owner_key: the personal name when it is not
\* empty, else the company name, then "|" and the zip code.
normalize_owner_key(row) ==
  IF Unguarded(row, {"full_name", "company_name", "mailing_zip"})
  THEN Keyed("AttributeError", <<>>)
  ELSE Keyed("", (IF StripUpper(row, "full_name") # <<>> THEN StripUpper(row, "full_name")
                  ELSE StripUpper(row, "company_name"))
                 \o <<"|">> \o Strip(RowGet(row, "mailing_zip", <<>>)))

\* group_investor_entities.normalize_entity_name: the company name when it
\* is not empty, else the personal name, runs of whitespace collapsed.
normalize_entity_name(row) ==
  IF Unguarded(row, {"full_name", "company_name"})
  THEN Keyed("AttributeError", <<>>)
  ELSE Keyed("", JoinSpace(SplitWords(IF StripUpper(row, "company_name") # <<>>
                                      THEN StripUpper(row, "company_name")
                                      ELSE StripUpper(row, "full_name"))))

\* The dict of groups as the list of its items in insertion order.
KeysOf(groups) == [i \in 1..Len(groups) |-> groups[i].key]

\* groups[key].append(row), the key being added at the end when it is new.
group_append(groups, key, row) ==
  IF \E i \in 1..Len(groups) : groups[i].key = key
  THEN [i \in 1..Len(groups) |->
          IF groups[i].key = key
          THEN [groups[i] EXCEPT !.properties = Append(@, row)]
          ELSE groups[i]]
  ELSE Append(groups, [key |-> key, properties |-> <<row>>])

\* [f(p) for p in properties if f(p)] with f(p) = p.get(key, "").strip()
stripped_values(properties, key) ==
  SelectSeq([i \in 1..Len(properties) |-> Strip(RowGet(properties[i], key, <<>>))],
            LAMBDA v : v # <<>>)

\* Some member holds None under one of the keys.
any_unguarded(properties, keys) ==
  \E i \in 1..Len(properties) : Unguarded(properties[i], keys)

\* The sum of the total_value fields that parse; the others add nothing.
RECURSIVE portfolio_value(_)
portfolio_value(properties) ==
  IF properties = <<>> THEN 0
  ELSE (IF parse_amount(RowGet(Head(properties), "total_value", <<>>)) = NoValue THEN 0
        ELSE parse_amount(RowGet(Head(properties), "total_value", <<>>))[1])
       + portfolio_value(Tail(properties))

\* f"{int(total):,}" if total > 0 else ""
value_text(total) == IF total > 0 THEN Commas(total) ELSE <<>>

\* int(row.get("engagement_score", "0") or "0"): NoValue for ValueError.
score_of(row) == ToInt(PyOr(RowGet(row, "engagement_score", <<"0">>), <<"0">>))

Min2(a, b) == IF a < b THEN a ELSE b

Max2(a, b) == IF a > b THEN a ELSE b

\* A consolidated row, or the exception raised while building or writing it.
Consolidated(exc, row) == [exc |-> exc, row |-> row]

\* str(n)
SignedStr(n) == IF n < 0 THEN <<"-">> \o IntStr(0 - n) ELSE IntStr(n)

\* " | ".join(items[:cap]), with " ... (+N more)" after it when marked and
\* there are more than cap items.
capped_join(items, cap, marked) ==
  Join(FirstN(items, cap), <<" ","|"," ">>)
  \o (IF marked /\ Len(items) > cap
      THEN <<" ",".",".","."," ","(","+">> \o IntStr(Len(items) - cap) \o <<" ","m","o","r","e",")">> ELSE <<>>)

\* A variant whose bonus grows with the group without bound.
owner_boosted_Unbounded(base_row, property_count) ==
  SetKey(SetKey(base_row, "engagement_score",
                SignedStr(Min2(100, score_of(base_row)[1] + (property_count - 1)))),
         "why_flagged",
         IF Strip(RowGet(base_row, "why_flagged", <<>>)) # <<>>
         THEN Strip(RowGet(base_row, "why_flagged", <<>>)) \o <<" ","+"," ">>
              \o IntStr(property_count) \o <<" ","p","r","o","p","e","r","t","i","e","s">>
         ELSE IntStr(property_count) \o <<" ","p","r","o","p","e","r","t","i","e","s">>)

\* group_by_owner, lines 122-133: the score of the base record plus a bonus
\* of at most 10, capped at 100, and the count appended to why_flagged.
owner_boosted(base_row, property_count) ==
  SetKey(SetKey(base_row, "engagement_score",
                SignedStr(Min2(100, score_of(base_row)[1] + Min2(10, property_count - 1)))),
         "why_flagged",
         IF Strip(RowGet(base_row, "why_flagged", <<>>)) # <<>>
         THEN Strip(RowGet(base_row, "why_flagged", <<>>)) \o <<" ","+"," ">>
              \o IntStr(property_count) \o <<" ","p","r","o","p","e","r","t","i","e","s">>
         ELSE IntStr(property_count) \o <<" ","p","r","o","p","e","r","t","i","e","s">>)

\* group_by_owner, lines 98-119.
owner_aggregated(properties) ==
  SetKey(SetKey(SetKey(properties[1],
                       "property_count_actual", IntStr(Len(properties))),
                "property_ids", capped_join(stripped_values(properties, "tcad_account_id"), 10, FALSE)),
         "total_portfolio_value", value_text(portfolio_value(properties)))

owner_written(base_row, output_columns) ==
  IF writer_rejects(DOMAIN base_row, output_columns)
  THEN Consolidated("ValueError", base_row) ELSE Consolidated("", base_row)

\* One pass of the loop of group_properties_by_owner over the groups.
owner_consolidated(properties, output_columns) ==
  IF any_unguarded(properties, {"tcad_account_id", "total_value"})
  THEN Consolidated("AttributeError", <<>>)
  ELSE IF Len(properties) = 1 THEN owner_written(owner_aggregated(properties), output_columns)
  ELSE IF score_of(properties[1]) = NoValue THEN Consolidated("ValueError", <<>>)
  ELSE IF Unguarded(properties[1], {"why_flagged"}) THEN Consolidated("AttributeError", <<>>)
  ELSE owner_written(owner_boosted(owner_aggregated(properties), Len(properties)), output_columns)

owner_output_columns(input_columns) ==
  Columns(input_columns) \cup {"property_count_actual", "property_ids", "total_portfolio_value"}

\* The exception the loop body of group_entities_by_name (lines 141-167)
\* raises on a member, "" when none.
member_exception(prop) ==
  IF Unguarded(prop, {"tcad_account_id", "situs_address", "situs_city"}) THEN "AttributeError"
  ELSE IF score_of(prop) = NoValue THEN "ValueError"
  ELSE IF Unguarded(prop, {"has_email", "has_phone"}) THEN "AttributeError"
  ELSE ""

\* The exception of the first member that raises.
RECURSIVE members_exception(_)
members_exception(properties) ==
  IF properties = <<>> THEN ""
  ELSE IF member_exception(Head(properties)) # "" THEN member_exception(Head(properties))
  ELSE members_exception(Tail(properties))

\* max_engagement_score: the largest score of the members, at least 0.
RECURSIVE max_engagement_score(_)
max_engagement_score(properties) ==
  IF properties = <<>> THEN 0
  ELSE Max2(score_of(properties[Len(properties)])[1],
            max_engagement_score(SubSeq(properties, 1, Len(properties) - 1)))

\* "situs_address, situs_city" of the members with an address.
property_addresses(properties) ==
  LET with_address == SelectSeq(properties, LAMBDA p : Strip(RowGet(p, "situs_address", <<>>)) # <<>>)
  IN  [i \in 1..Len(with_address) |->
         IF Strip(RowGet(with_address[i], "situs_city", <<>>)) # <<>>
         THEN Strip(RowGet(with_address[i], "situs_address", <<>>)) \o <<",", " ">>
              \o Strip(RowGet(with_address[i], "situs_city", <<>>))
         ELSE Strip(RowGet(with_address[i], "situs_address", <<>>))]

any_flag(properties, key) ==
  \E i \in 1..Len(properties) : Upper(RowGet(properties[i], key, <<>>)) = <<"Y">>

YesNo(b) == IF b THEN <<"Y">> ELSE <<"N">>

\* f"{int(avg_value):,}" if avg_value > 0 else ""
average_text(total, property_count) ==
  IF total > 0 THEN Commas(total \div property_count) ELSE <<>>

entity_why_flagged(base_row, property_count) ==
  IF property_count <= 1 THEN base_row
  ELSE SetKey(base_row, "why_flagged",
              IF Strip(RowGet(base_row, "why_flagged", <<>>)) # <<>>
              THEN Strip(RowGet(base_row, "why_flagged", <<>>)) \o <<" ","|"," ">>
                   \o IntStr(property_count) \o <<" ","p","r","o","p","e","r","t","i","e","s"," ","c","o","n","s","o","l","i","d","a","t","e","d">>
              ELSE IntStr(property_count) \o <<" ","p","r","o","p","e","r","t","i","e","s"," ","c","o","n","s","o","l","i","d","a","t","e","d">>)

entity_property_count(base_row, property_count) ==
  IF "property_count" \in DOMAIN base_row
  THEN SetKey(base_row, "property_count", IntStr(property_count)) ELSE base_row

\* group_entities_by_name, lines 128-188: the aggregated fields set on the
\* first member of the group.
entity_aggregated(properties) ==
  [k \in DOMAIN properties[1] \cup
         {"properties_count", "total_portfolio_value", "avg_property_value", "property_ids",
          "property_addresses", "max_engagement_score", "has_any_email", "has_any_phone",
          "engagement_score"} |->
     CASE k = "properties_count" -> IntStr(Len(properties))
       [] k = "total_portfolio_value" -> value_text(portfolio_value(properties))
       [] k = "avg_property_value" -> average_text(portfolio_value(properties), Len(properties))
       [] k = "property_ids" ->
            capped_join(stripped_values(properties, "tcad_account_id"), 20, TRUE)
       [] k = "property_addresses" -> capped_join(property_addresses(properties), 5, TRUE)
       [] k = "max_engagement_score" -> SignedStr(max_engagement_score(properties))
       [] k = "has_any_email" -> YesNo(any_flag(properties, "has_email"))
       [] k = "has_any_phone" -> YesNo(any_flag(properties, "has_phone"))
       [] k = "engagement_score" -> SignedStr(max_engagement_score(properties))
       [] OTHER -> properties[1][k]]

\* One pass of the loop of group_entities_by_name over the groups.
entity_consolidated(properties, output_columns) ==
  IF members_exception(properties) # "" THEN Consolidated(members_exception(properties), <<>>)
  ELSE IF Unguarded(properties[1], {"why_flagged"}) THEN Consolidated("AttributeError", <<>>)
  ELSE owner_written(entity_why_flagged(entity_property_count(entity_aggregated(properties),
                                                              Len(properties)),
                                        Len(properties)),
                     output_columns)

entity_output_columns(input_columns) ==
  Columns(input_columns) \cup
  {"properties_count", "total_portfolio_value", "avg_property_value", "property_ids",
   "property_addresses", "max_engagement_score", "has_any_email", "has_any_phone"}

Groupers == {"group_by_owner", "group_investor_entities"}

GroupHeader ==
  <<"full_name", "company_name", "mailing_zip", "tcad_account_id", "total_value",
    "engagement_score", "why_flagged">>

\* Lines of the input file: two spellings of one person at one zip code with
\* scores 40 and 90, a row with a personal and a company name, the company
\* alone at another zip code, a row without a name, a line cut after its
\* second cell.
GroupLines ==
  { <<<<"J","O","H","N"," ","S","M","I","T","H">>, <<>>, <<"7","8","7","0","1">>, <<"A","1">>, <<"$","1","0","0",",","0","0","0">>, <<"4","0">>, <<"A","b","s","e","n","t","e","e">>>>,
    <<<<"j","o","h","n"," ","s","m","i","t","h"," ">>, <<>>, <<"7","8","7","0","1">>, <<"A","2">>, <<"2","5","0","0","0","0">>, <<"9","0">>, <<>>>>,
    <<<<"J","O","H","N"," ","S","M","I","T","H">>, <<"A","C","M","E"," ","L","L","C">>, <<"7","8","7","0","1">>, <<"A","3">>, <<"a","b","c">>, <<"7","0">>, <<"x">>>>,
    <<<<>>, <<" ","a","c","m","e"," "," ","l","l","c">>, <<"7","8","7","0","2">>, <<"A","4">>, <<>>, <<"5","5">>, <<>>>>,
    <<<<>>, <<>>, <<"7","8","7","0","1">>, <<"A","5">>, <<"5">>, <<"1","0">>, <<>>>>,
    <<<<"J","O","H","N"," ","S","M","I","T","H">>, <<>>>> }

NoGroups == [run |-> 1, groups |-> <<>>, emitted |-> 0]

NoFirstRun == [output |-> <<>>, result |-> [exc |-> "not run"]]

InitGroup ==
  /\ prog \in Groupers
  /\ pc = "load"
  /\ rowsRead = 0
  /\ counts = <<>>
  /\ streams = [output |-> <<>>, first |-> NoFirstRun]
  /\ cur = NoGroups
  /\ args \in [input_columns : {GroupHeader}, lines : SeqsUpTo(GroupLines, MaxRows)]
  /\ result = [exc |-> "running"]

group_key(row) ==
  IF prog = "group_by_owner" THEN normalize_owner_key(row) ELSE normalize_entity_name(row)

\* The first pass, one row: the row joins the group of its key; a row
\* without a name is skipped by group_entities_by_name.
RowGrouped(row, k) ==
  /\ rowsRead' = rowsRead + 1
  /\ IF k.exc # ""
     THEN /\ pc' = "aborted" /\ result' = [exc |-> k.exc]
          /\ UNCHANGED cur
     ELSE /\ cur' = IF prog = "group_investor_entities" /\ k.key = <<>> THEN cur
                    ELSE [cur EXCEPT !.groups = group_append(@, k.key, row)]
          /\ UNCHANGED <<pc, result>>
  /\ UNCHANGED <<prog, counts, streams, args>>

RowRead(row) == RowGrouped(row, group_key(row))

GroupRow ==
  /\ prog \in Groupers /\ pc = "load" /\ rowsRead < Len(args.lines)
  /\ RowRead(DictReaderRow(args.input_columns, args.lines[rowsRead + 1]))

\* The input is exhausted: the counts are set up and the header is written.
GroupsComplete ==
  /\ prog \in Groupers /\ pc = "load" /\ rowsRead = Len(args.lines)
  /\ pc' = "emit"
  /\ counts' = IF prog = "group_by_owner"
               THEN [total_owners |-> Len(cur.groups), single_property |-> 0,
                     multiple_properties |-> 0, total_properties |-> 0]
               ELSE [total_entities |-> Len(cur.groups), single_property |-> 0,
                     multiple_properties |-> 0, total_properties |-> 0]
  /\ UNCHANGED <<prog, rowsRead, streams, cur, args, result>>

\* A variant in which the order of the groups differs from run to run.
items_Unstable(groups) ==
  IF cur.run = 2 THEN [i \in 1..Len(groups) |-> groups[Len(groups) + 1 - i]] ELSE groups

\* owner_groups.items(): the groups in the order in which their keys were
\* first seen.
items(groups) == groups

consolidated(properties) ==
  IF prog = "group_by_owner"
  THEN owner_consolidated(properties, owner_output_columns(args.input_columns))
  ELSE entity_consolidated(properties, entity_output_columns(args.input_columns))

\* The second pass, one group.
GroupWritten(properties, o) ==
  /\ counts' = [counts EXCEPT
                  !.total_properties = @ + Len(properties),
                  !.single_property = @ + Flag(Len(properties) = 1),
                  !.multiple_properties = @ + Flag(Len(properties) # 1)]
  /\ cur' = [cur EXCEPT !.emitted = @ + 1]
  /\ IF o.exc = ""
     THEN /\ streams' = [streams EXCEPT !.output = Append(@, o.row)]
          /\ UNCHANGED <<pc, result>>
     ELSE /\ pc' = "aborted" /\ result' = [exc |-> o.exc]
          /\ UNCHANGED streams
  /\ UNCHANGED <<prog, rowsRead, args>>

GroupTaken(properties) == GroupWritten(properties, consolidated(properties))

EmitGroup ==
  /\ prog \in Groupers /\ pc = "emit" /\ cur.emitted < Len(cur.groups)
  /\ GroupTaken(items(cur.groups)[cur.emitted + 1].properties)

\* All groups are written: the function returns counts.
GroupEnd ==
  /\ prog \in Groupers /\ pc = "emit" /\ cur.emitted = Len(cur.groups)
  /\ pc' = "done"
  /\ result' = [exc |-> "", counts |-> counts]
  /\ UNCHANGED <<prog, rowsRead, counts, streams, cur, args>>

\* The function is called once more on the same input file; what the first
\* call wrote and returned is kept for comparison.
GroupAgain ==
  /\ prog \in Groupers /\ pc \in {"done", "aborted"} /\ cur.run = 1
  /\ pc' = "load"
  /\ rowsRead' = 0
  /\ counts' = <<>>
  /\ streams' = [output |-> <<>>, first |-> [output |-> streams.output, result |-> result]]
  /\ cur' = [run |-> 2, groups |-> <<>>, emitted |-> 0]
  /\ result' = [exc |-> "running"]
  /\ UNCHANGED <<prog, args>>

NextGroup == GroupRow \/ GroupsComplete \/ EmitGroup \/ GroupEnd \/ GroupAgain

SpecGroup == InitGroup /\ [][NextGroup]_vars

\* The groups whose consolidated row is in the output: rows are written in
\* the order of the groups.
WrittenGroups == 1..Len(streams.output)

\* The largest of the members' scores.
LargestScore(properties) ==
  CHOOSE m \in {ToInt(properties[i]["engagement_score"])[1] : i \in 1..Len(properties)} :
    \A i \in 1..Len(properties) : ToInt(properties[i]["engagement_score"])[1] <= m

\* C13 -- the consolidated record of a group of two or more members carries
\* the maximum of the members' scores as its score, whichever member comes
\* first in the input.
C13_GroupScoreIsMax ==
  prog \in Groupers =>
    \A i \in WrittenGroups :
      Len(cur.groups[i].properties) >= 2 =>
        ToInt(streams.output[i]["engagement_score"])
          = Some(LargestScore(cur.groups[i].properties))

\* The name the aggregator is to prefer, and the postal code, of a row.
PreferredName(row) ==
  IF Upper(Strip(row["company_name"])) # <<>> THEN Upper(Strip(row["company_name"]))
  ELSE Upper(Strip(row["full_name"]))

PostalCode(row) == Strip(row["mailing_zip"])

\* C14 -- two rows are in the same group if and only if their preferred
\* (company before personal) normalized names and their postal codes are
\* equal.
C14_SameGroupIffSameNameAndZip ==
  prog \in Groupers =>
    \A i, j \in 1..Len(cur.groups) :
      \A a \in 1..Len(cur.groups[i].properties), b \in 1..Len(cur.groups[j].properties) :
        (cur.groups[i].properties[a]["mailing_zip"] # None
         /\ cur.groups[j].properties[b]["mailing_zip"] # None) =>
          ( (i = j) <=>
            /\ PreferredName(cur.groups[i].properties[a]) = PreferredName(cur.groups[j].properties[b])
            /\ PostalCode(cur.groups[i].properties[a]) = PostalCode(cur.groups[j].properties[b]) )

RECURSIVE MemberCount(_)
MemberCount(groups) ==
  IF groups = <<>> THEN 0 ELSE Len(Head(groups).properties) + MemberCount(Tail(groups))

\* C15 -- the grouping pass loses no record: once the input is read every
\* input row is a member of a group, and when the function is through, by
\* return or by exception, one row was written for each group, with the
\* first member as its base and the number of members as its count, and
\* total_properties is the number of input rows.
C15_NoRecordLost ==
  (prog \in Groupers /\ counts # <<>>) =>
    /\ MemberCount(cur.groups) = Len(args.lines)
    /\ pc \in {"done", "aborted"} =>
         /\ Len(streams.output) = Len(cur.groups)
         /\ counts.total_properties = Len(args.lines)
         /\ \A i \in WrittenGroups :
              /\ streams.output[i][IF prog = "group_by_owner" THEN "property_count_actual"
                                    ELSE "properties_count"]
                   = IntStr(Len(cur.groups[i].properties))
              /\ streams.output[i]["tcad_account_id"]
                   = cur.groups[i].properties[1]["tcad_account_id"]

-----------------------------------------------------------------------------
(* scripts/column_mapper.py                                                *)

\* The keys of CANONICAL_FIELDS in the order of their declaration.
CANONICAL_FIELD_NAMES ==
  <<"recording_date", "doc_type", "lender_name", "borrower_name", "property_address", "property_city", "property_state", "property_zip", "loan_amount", "interest_rate", "maturity_date", "loan_term", "apn">>

\* CANONICAL_FIELDS: the aliases of each canonical field.
CANONICAL_FIELDS ==
  [recording_date |->
     <<<<"r","e","c","o","r","d","i","n","g"," ","d","a","t","e">>,
       <<"r","e","c","o","r","d"," ","d","a","t","e">>,
       <<"d","a","t","e"," ","r","e","c","o","r","d","e","d">>,
       <<"f","i","l","i","n","g"," ","d","a","t","e">>,
       <<"d","o","c"," ","d","a","t","e">>>>,
   doc_type |->
     <<<<"d","o","c","u","m","e","n","t"," ","t","y","p","e">>,
       <<"i","n","s","t","r","u","m","e","n","t"," ","t","y","p","e">>,
       <<"d","o","c"," ","t","y","p","e">>,
       <<"i","n","s","t","r","u","m","e","n","t">>,
       <<"t","y","p","e">>>>,
   lender_name |->
     <<<<"l","e","n","d","e","r">>,
       <<"b","e","n","e","f","i","c","i","a","r","y">>,
       <<"m","o","r","t","g","a","g","e","e">>,
       <<"g","r","a","n","t","e","e">>,
       <<"p","a","y","e","e">>,
       <<"c","r","e","d","i","t","o","r">>>>,
   borrower_name |->
     <<<<"b","o","r","r","o","w","e","r">>,
       <<"g","r","a","n","t","o","r">>,
       <<"t","r","u","s","t","o","r">>,
       <<"m","o","r","t","g","a","g","o","r">>,
       <<"d","e","b","t","o","r">>,
       <<"o","b","l","i","g","o","r">>>>,
   property_address |->
     <<<<"p","r","o","p","e","r","t","y"," ","a","d","d","r","e","s","s">>,
       <<"s","i","t","u","s"," ","a","d","d","r","e","s","s">>,
       <<"a","d","d","r","e","s","s">>,
       <<"p","r","o","p","e","r","t","y"," ","l","o","c","a","t","i","o","n">>,
       <<"s","i","t","u","s">>>>,
   property_city |->
     <<<<"c","i","t","y">>,
       <<"p","r","o","p","e","r","t","y"," ","c","i","t","y">>,
       <<"s","i","t","u","s"," ","c","i","t","y">>>>,
   property_state |->
     <<<<"s","t","a","t","e">>,
       <<"p","r","o","p","e","r","t","y"," ","s","t","a","t","e">>,
       <<"s","i","t","u","s"," ","s","t","a","t","e">>>>,
   property_zip |->
     <<<<"z","i","p">>,
       <<"z","i","p"," ","c","o","d","e">>,
       <<"p","o","s","t","a","l"," ","c","o","d","e">>,
       <<"p","r","o","p","e","r","t","y"," ","z","i","p">>,
       <<"s","i","t","u","s"," ","z","i","p">>>>,
   loan_amount |->
     <<<<"l","o","a","n"," ","a","m","o","u","n","t">>,
       <<"p","r","i","n","c","i","p","a","l">>,
       <<"o","r","i","g","i","n","a","l"," ","p","r","i","n","c","i","p","a","l">>,
       <<"a","m","o","u","n","t">>,
       <<"l","o","a","n"," ","v","a","l","u","e">>,
       <<"f","a","c","e"," ","a","m","o","u","n","t">>>>,
   interest_rate |->
     <<<<"i","n","t","e","r","e","s","t"," ","r","a","t","e">>,
       <<"r","a","t","e">>,
       <<"a","p","r">>,
       <<"i","n","t","e","r","e","s","t">>>>,
   maturity_date |->
     <<<<"m","a","t","u","r","i","t","y"," ","d","a","t","e">>,
       <<"m","a","t","u","r","i","t","y">>,
       <<"d","u","e"," ","d","a","t","e">>,
       <<"p","a","y","o","f","f"," ","d","a","t","e">>>>,
   loan_term |->
     <<<<"l","o","a","n"," ","t","e","r","m">>,
       <<"t","e","r","m">>,
       <<"l","o","a","n"," ","p","e","r","i","o","d">>,
       <<"m","o","n","t","h","s">>,
       <<"y","e","a","r","s">>>>,
   apn |->
     <<<<"a","p","n">>,
       <<"p","a","r","c","e","l"," ","i","d">>,
       <<"p","a","r","c","e","l","_","i","d">>,
       <<"a","c","c","o","u","n","t"," ","i","d">>,
       <<"a","c","c","o","u","n","t","_","i","d">>,
       <<"p","a","r","c","e","l"," ","n","u","m","b","e","r">>,
       <<"a","s","s","e","s","s","o","r"," ","p","a","r","c","e","l"," ","n","u","m","b","e","r">>>>]

\* The text of each canonical field name.
FieldText ==
  [recording_date |-> <<"r","e","c","o","r","d","i","n","g","_","d","a","t","e">>,
   doc_type |-> <<"d","o","c","_","t","y","p","e">>,
   lender_name |-> <<"l","e","n","d","e","r","_","n","a","m","e">>,
   borrower_name |-> <<"b","o","r","r","o","w","e","r","_","n","a","m","e">>,
   property_address |-> <<"p","r","o","p","e","r","t","y","_","a","d","d","r","e","s","s">>,
   property_city |-> <<"p","r","o","p","e","r","t","y","_","c","i","t","y">>,
   property_state |-> <<"p","r","o","p","e","r","t","y","_","s","t","a","t","e">>,
   property_zip |-> <<"p","r","o","p","e","r","t","y","_","z","i","p">>,
   loan_amount |-> <<"l","o","a","n","_","a","m","o","u","n","t">>,
   interest_rate |-> <<"i","n","t","e","r","e","s","t","_","r","a","t","e">>,
   maturity_date |-> <<"m","a","t","u","r","i","t","y","_","d","a","t","e">>,
   loan_term |-> <<"l","o","a","n","_","t","e","r","m">>,
   apn |-> <<"a","p","n">>]

LowerChar(c) ==
  IF \E i \in 1..26 : UpperLetters[i] = c
  THEN LowerLetters[CHOOSE i \in 1..26 : UpperLetters[i] = c]
  ELSE c

\* str.lower
Lower(s) == [i \in 1..Len(s) |-> LowerChar(s[i])]

\* col.lower().strip().replace("_", " ").replace("-", " ")
normalize_column_name(col) ==
  LET stripped == Strip(Lower(col))
  IN  [i \in 1..Len(stripped) |-> IF stripped[i] \in {"_", "-"} THEN " " ELSE stripped[i]]

\* The length of the common run of a from i and b from j, inside a[..ahi]
\* and b[..bhi].
RECURSIVE RunLength(_, _, _, _, _, _)
RunLength(a, b, i, j, ahi, bhi) ==
  IF i > ahi \/ j > bhi THEN 0
  ELSE IF a[i] # b[j] THEN 0
  ELSE 1 + RunLength(a, b, i + 1, j + 1, ahi, bhi)

\* SequenceMatcher.find_longest_match on a[alo..ahi] and b[blo..bhi] as
\* <<i, j, size>>: a longest common block, of those the one that starts
\* earliest in a, and of those the one that starts earliest in b.
find_longest_match(a, b, alo, ahi, blo, bhi) ==
  LET starts == (alo..ahi) \X (blo..bhi)
      size == [p \in starts |-> RunLength(a, b, p[1], p[2], ahi, bhi)]
      longest == CHOOSE n \in {size[p] : p \in starts} :
                   \A p \in starts : size[p] <= n
      i == CHOOSE x \in alo..ahi :
             /\ \E y \in blo..bhi : size[<<x, y>>] = longest
             /\ \A w \in alo..(x - 1) : \A y \in blo..bhi : size[<<w, y>>] # longest
      j == CHOOSE y \in blo..bhi :
             /\ size[<<i, y>>] = longest
             /\ \A w \in blo..(y - 1) : size[<<i, w>>] # longest
  IN  IF starts = {} THEN <<alo, blo, 0>> ELSE <<i, j, longest>>

\* The number of matched characters: the longest block plus the matches to
\* its left and to its right (get_matching_blocks).
RECURSIVE matches(_, _, _, _, _, _)
matches_around(a, b, alo, ahi, blo, bhi, m) ==
  IF m[3] = 0 THEN 0
  ELSE m[3] + matches(a, b, alo, m[1] - 1, blo, m[2] - 1)
            + matches(a, b, m[1] + m[3], ahi, m[2] + m[3], bhi)

matches(a, b, alo, ahi, blo, bhi) ==
  matches_around(a, b, alo, ahi, blo, bhi, find_longest_match(a, b, alo, ahi, blo, bhi))

\* similarity_score: SequenceMatcher(None, s1.lower(), s2.lower()).ratio()
\* as the fraction <<2 * matches, len(s1) + len(s2)>>; two empty strings
\* give 1.0.
similarity_score(s1, s2) ==
  IF Len(s1) + Len(s2) = 0 THEN <<1, 1>>
  ELSE LET a == Lower(s1)
           b == Lower(s2)
       IN  <<2 * matches(a, b, 1, Len(a), 1, Len(b)), Len(a) + Len(b)>>

\* Comparison of two fractions with positive denominators.
Greater(x, y) == x[1] * y[2] > y[1] * x[2]

AtLeast(x, y) == x[1] * y[2] >= y[1] * x[2]

\* The columns that column_mapping already holds: column_mapping.values().
values(column_mapping) == {column_mapping[f] : f \in DOMAIN column_mapping}

claimed_Never(column_mapping, csv_column) == FALSE

\* "if csv_column in column_mapping.values(): continue"
claimed(column_mapping, csv_column) == csv_column \in values(column_mapping)

NoColumn == [column |-> None, score |-> <<0, 1>>]

\* The loop over the aliases of one field for one column: a score replaces
\* the best one only when it is strictly greater.
RECURSIVE check_aliases(_, _, _, _, _)
check_aliases(normalized_csv, csv_column, aliases, k, best) ==
  IF k > Len(aliases) THEN best
  ELSE LET score == similarity_score(normalized_csv, aliases[k])
       IN  check_aliases(normalized_csv, csv_column, aliases, k + 1,
             IF Greater(score, best.score)
             THEN [column |-> csv_column, score |-> score]
             ELSE best)

\* The loop over the header for one canonical field: claimed columns are
\* skipped, a direct match ends the loop with the score 1.0.
RECURSIVE best_match(_, _, _, _, _)
best_match(canonical_field, header, column_mapping, i, best) ==
  IF i > Len(header) THEN best
  ELSE IF claimed(column_mapping, header[i])
  THEN best_match(canonical_field, header, column_mapping, i + 1, best)
  ELSE IF normalize_column_name(header[i]) = normalize_column_name(FieldText[canonical_field])
  THEN [column |-> header[i], score |-> <<1, 1>>]
  ELSE best_match(canonical_field, header, column_mapping, i + 1,
         check_aliases(normalize_column_name(header[i]), header[i],
                       CANONICAL_FIELDS[canonical_field], 1, best))

optional_fields == {"interest_rate", "maturity_date", "loan_term"}

required_threshold_Half(canonical_field) == <<1, 2>>

\* 0.5, and 0.7 for the optional fields.
required_threshold(canonical_field) ==
  IF canonical_field \in optional_fields THEN <<7, 10>> ELSE <<1, 2>>

\* The mapping extended by one key.
Mapped(column_mapping, canonical_field, column) ==
  [f \in DOMAIN column_mapping \cup {canonical_field} |->
     IF f = canonical_field THEN column ELSE column_mapping[f]]

NoMapping == [f \in {} |-> None]

\* The header rows of the recorder files that are mapped.
Headers ==
  {<<<<"L","e","n","d","e","r">>, <<"A","m","o","u","n","t">>, <<"R","e","c","o","r","d","i","n","g"," ","D","a","t","e">>>>,
   <<<<"t","y","p","e">>, <<"D","o","c"," ","T","y","p","e">>>>,
   <<<<"a","d","d","r","e","s","s">>, <<"c","i","t","y">>, <<"s","t","a","t","e">>>>,
   <<<<"r","a","t","e">>, <<"z","i","p">>>>,
   <<<<"t","e","r","m">>, <<"d","a","t","e">>>>,
   <<<<"s","i","t","u","s">>, <<"s","i","t","u","s"," ","c","i","t","y">>>>,
   <<<<"N","a","m","e">>>>,
   <<<<"l","e","n","d","e","r","_","n","a","m","e">>, <<"L","E","N","D","E","R","-","N","A","M","E">>>>,
   <<<<"A","m","o","u","n","t">>, <<"L","o","a","n"," ","A","m","o","u","n","t">>>>,
   <<<<"M","o","s">>, <<"z","i","p">>>>,
   <<<<"c","i","t","y">>, <<"c","i","t","y">>>>,
   <<<<"G","r","a","n","t","o","r">>, <<"G","r","a","n","t","e","e">>, <<"A","P","N">>>>,
   <<>>}

InitMapColumns ==
  /\ prog = "map_columns"
  /\ pc = "run"
  /\ rowsRead = 0
  /\ counts = <<>>
  /\ streams = <<>>
  /\ args \in {[header |-> h] : h \in Headers}
  /\ cur = [column_mapping |-> NoMapping, found |-> <<>>, missing |-> <<>>]
  /\ result = [exc |-> "running"]

\* One pass of the loop over CANONICAL_FIELDS with the best column found.
FieldMapped(canonical_field, best) ==
  /\ rowsRead' = rowsRead + 1
  /\ cur' = IF AtLeast(best.score, required_threshold(canonical_field))
            THEN [column_mapping |-> Mapped(cur.column_mapping, canonical_field, best.column),
                  found |-> Append(cur.found, canonical_field),
                  missing |-> cur.missing]
            ELSE [cur EXCEPT !.missing = Append(@, canonical_field)]
  /\ UNCHANGED <<prog, pc, counts, streams, args, result>>

FieldTaken(canonical_field) ==
  FieldMapped(canonical_field,
              best_match(canonical_field, args.header, cur.column_mapping, 1, NoColumn))

MapField ==
  /\ prog = "map_columns"
  /\ pc = "run"
  /\ rowsRead < Len(CANONICAL_FIELD_NAMES)
  /\ FieldTaken(CANONICAL_FIELD_NAMES[rowsRead + 1])

\* return column_mapping, field_status
MapEnd ==
  /\ prog = "map_columns"
  /\ pc = "run"
  /\ rowsRead = Len(CANONICAL_FIELD_NAMES)
  /\ pc' = "done"
  /\ result' = [exc |-> "", column_mapping |-> cur.column_mapping,
                found |-> cur.found, missing |-> cur.missing, ambiguous |-> <<>>]
  /\ UNCHANGED <<prog, rowsRead, counts, streams, cur, args>>

NextMapColumns == MapField \/ MapEnd

SpecMapColumns == InitMapColumns /\ [][NextMapColumns]_vars

\* The largest of a non-empty set of fractions.
Largest(scores) == CHOOSE x \in scores : \A y \in scores : AtLeast(x, y)

\* The position of a canonical field in the declaration.
Declared(canonical_field) ==
  CHOOSE i \in 1..Len(CANONICAL_FIELD_NAMES) : CANONICAL_FIELD_NAMES[i] = canonical_field

Before(A, B) == Declared(A) < Declared(B)

ColumnsOf(header) == {header[i] : i \in 1..Len(header)}

\* The score map_columns gives one column for one field: 1.0 on a direct
\* match, otherwise the best similarity to an alias.
FieldScore(canonical_field, csv_column) ==
  IF normalize_column_name(csv_column) = normalize_column_name(FieldText[canonical_field])
  THEN <<1, 1>>
  ELSE Largest({similarity_score(normalize_column_name(csv_column),
                                 CANONICAL_FIELDS[canonical_field][k]) :
                  k \in 1..Len(CANONICAL_FIELDS[canonical_field])})

Wants(canonical_field, csv_column) ==
  AtLeast(FieldScore(canonical_field, csv_column), required_threshold(canonical_field))

MapColumnsReturned == prog = "map_columns" /\ pc = "done"

\* C17: map_columns never double-maps. While the fields are processed and in
\* the returned mapping no source column is the image of two canonical fields;
\* and a column is claimed in declaration order: when a field holds a column
\* that an earlier-declared field also accepts (its score for that field
\* reaches the field's threshold), the earlier field was served first, i.e. it
\* is mapped to a column that scores for it at least as well.
C17_NoDoubleMapping ==
  prog = "map_columns" =>
    /\ \A A \in DOMAIN cur.column_mapping : \A B \in DOMAIN cur.column_mapping :
         A # B => cur.column_mapping[A] # cur.column_mapping[B]
    /\ pc = "done" =>
         /\ DOMAIN result.column_mapping = DOMAIN cur.column_mapping
         /\ \A B \in DOMAIN result.column_mapping :
              /\ result.column_mapping[B] = cur.column_mapping[B]
              /\ \A A \in DOMAIN CANONICAL_FIELDS :
                   Before(A, B) /\ Wants(A, result.column_mapping[B]) =>
                     /\ A \in DOMAIN result.column_mapping
                     /\ AtLeast(FieldScore(A, result.column_mapping[A]),
                                FieldScore(A, result.column_mapping[B]))

\* A returned mapping in which a later field went without a column it accepts
\* because an earlier field holds it.
C17_Witness ==
  /\ MapColumnsReturned
  /\ \E A \in DOMAIN result.column_mapping :
       \E B \in DOMAIN CANONICAL_FIELDS \ DOMAIN result.column_mapping :
         Before(A, B) /\ Wants(B, result.column_mapping[A])

\* The score of the claim: the best similarity of the normalized column to an
\* alias of the field or to the canonical name itself.
SimilarityToFieldOrAlias(canonical_field, csv_column) ==
  Largest({similarity_score(normalize_column_name(csv_column),
                            CANONICAL_FIELDS[canonical_field][k]) :
             k \in 1..Len(CANONICAL_FIELDS[canonical_field])}
          \cup {similarity_score(normalize_column_name(csv_column),
                                 normalize_column_name(FieldText[canonical_field]))})

\* The columns that no earlier-declared field is mapped to.
Unused(canonical_field) ==
  ColumnsOf(args.header) \
    {result.column_mapping[g] : g \in {h \in DOMAIN result.column_mapping : Before(h, canonical_field)}}

BestUnused(canonical_field) ==
  Largest({<<0, 1>>} \cup {SimilarityToFieldOrAlias(canonical_field, c) : c \in Unused(canonical_field)})

Elements(seq) == {seq[i] : i \in 1..Len(seq)}

\* C18: for each canonical field the best score of an unused source column
\* against the aliases of the field and the canonical name itself decides: the
\* field is mapped, to a column with that best score, if and only if the score
\* reaches the threshold (0.5, or 0.7 for interest_rate, maturity_date and
\* loan_term), and is otherwise reported missing; every field is in exactly one
\* of found and missing, and found is the key set of the mapping.
C18_BestColumnAboveThreshold ==
  MapColumnsReturned =>
    /\ Elements(result.found) = DOMAIN result.column_mapping
    /\ Elements(result.found) \cup Elements(result.missing) = DOMAIN CANONICAL_FIELDS
    /\ Elements(result.found) \cap Elements(result.missing) = {}
    /\ Len(result.found) + Len(result.missing) = Len(CANONICAL_FIELD_NAMES)
    /\ \A f \in DOMAIN CANONICAL_FIELDS :
         /\ f \in DOMAIN result.column_mapping <=>
              AtLeast(BestUnused(f), IF f \in {"interest_rate", "maturity_date", "loan_term"}
                                     THEN <<7, 10>> ELSE <<1, 2>>)
         /\ f \in DOMAIN result.column_mapping =>
              /\ result.column_mapping[f] \in Unused(f)
              /\ AtLeast(SimilarityToFieldOrAlias(f, result.column_mapping[f]), BestUnused(f))

BestUnusedDirectOrAlias(canonical_field) ==
  Largest({<<0, 1>>} \cup {FieldScore(canonical_field, c) : c \in Unused(canonical_field)})

\* C18 (amended): as C18, with the score of a column for a field being 1.0
\* when the normalized column name equals the normalized canonical name, and
\* otherwise the best similarity to an alias of the field; the canonical name
\* is compared for equality only.
C18_BestDirectOrAliasAboveThreshold ==
  MapColumnsReturned =>
    /\ Elements(result.found) = DOMAIN result.column_mapping
    /\ Elements(result.found) \cup Elements(result.missing) = DOMAIN CANONICAL_FIELDS
    /\ Elements(result.found) \cap Elements(result.missing) = {}
    /\ Len(result.found) + Len(result.missing) = Len(CANONICAL_FIELD_NAMES)
    /\ \A f \in DOMAIN CANONICAL_FIELDS :
         /\ f \in DOMAIN result.column_mapping <=>
              AtLeast(BestUnusedDirectOrAlias(f),
                      IF f \in {"interest_rate", "maturity_date", "loan_term"}
                      THEN <<7, 10>> ELSE <<1, 2>>)
         /\ f \in DOMAIN result.column_mapping =>
              /\ result.column_mapping[f] \in Unused(f)
              /\ AtLeast(FieldScore(f, result.column_mapping[f]), BestUnusedDirectOrAlias(f))

\* A returned report with a mapped field and with one of the three fields of
\* the higher threshold missing although its best unused column reaches 0.5.
C18_Witness ==
  /\ MapColumnsReturned
  /\ result.found # <<>>
  /\ \E f \in {"interest_rate", "maturity_date", "loan_term"} :
       /\ f \in Elements(result.missing)
       /\ AtLeast(BestUnusedDirectOrAlias(f), <<1, 2>>)

-----------------------------------------------------------------------------
(* note_broker_refine.classify_for_note_broker on one row                  *)

\* Rows of a targets file with and without contact cells.
TierRows ==
  {MkRow([email |-> em, Email |-> em2, phone |-> ph,
          mailing_address |-> ma, situs_address |-> <<"1"," ","M","A","I","N"," ","S","T">>,
          mailing_city |-> mc, situs_city |-> <<"A","U","S","T","I","N">>,
          mailing_state |-> <<"T","X">>, situs_state |-> <<"T","X">>,
          property_count |-> cnt, total_value |-> tv, full_name |-> fn]) :
     em  \in {Absent, <<>>, <<"a","@","b",".","c">>, <<"a","b","c">>, <<" ","@"," ">>},
     em2 \in {Absent, <<"x","@","y",".","z">>},
     ph  \in {Absent, <<"5","1","2","5","5","5","0","1","0","0">>, <<"5","1","2","5","5","5","0","1","0">>, <<" ","5","1","2","5","5","5","0"," "," ">>},
     ma  \in {<<"2"," ","O","A","K"," ","S","T">>, <<"P","O"," ","B","O","X"," ","9">>},
     mc  \in {<<"A","U","S","T","I","N">>, <<"d","a","l","l","a","s">>},
     cnt \in {Absent, <<"3">>, <<"a","b","c">>},
     tv  \in {<<"$","2","0","0",",","0","0","0">>, <<"a","b","c">>},
     fn  \in {<<"J","O","H","N"," ","S","M","I","T","H">>, <<"S","M","I","T","H"," ","T","R","U","S","T">>}}

InitTier ==
  /\ prog = "classify_for_note_broker"
  /\ args \in [row : TierRows]
  /\ result = [exc |-> "not called"]
  /\ StagesIdle

\* The tuple classify_for_note_broker returns, or the exception it raises.
TierReturned(c, s) ==
  result' = [exc |-> c.exc, classification |-> c.classification, engagement_score |-> s.score,
             why_flagged |-> s.why_flagged]

CallClassifyForNoteBroker ==
  /\ prog = "classify_for_note_broker"
  /\ result.exc = "not called"
  /\ TierReturned(classify_for_note_broker(args.row), calculate_engagement_score(args.row))
  /\ UNCHANGED <<prog, pc, rowsRead, counts, streams, cur, args>>

SpecTier == InitTier /\ [][CallClassifyForNoteBroker]_vars

\* The contact channels of C21: an email that contains "@", a phone of at
\* least 10 characters (the cells without the surrounding blanks; the cell
\* "email" and, when it is empty, "Email").
HasContactChannel(row) ==
  \/ \E i \in 1..Len(C10_Trimmed(email_of(row))) : C10_Trimmed(email_of(row))[i] = "@"
  \/ Len(C10_Trimmed(phone_of(row))) >= 10

\* C21: classify_for_note_broker assigns the tier top-down: HIGH_PRIORITY if
\* and only if the row has a contact channel and its engagement score is at
\* least 60; otherwise MEDIUM_PRIORITY from 50; otherwise LOW_PRIORITY from 30;
\* otherwise REVIEW. A row with a score of at least 60 and no contact channel
\* is MEDIUM_PRIORITY.
C21_TierByThresholds ==
  (prog = "classify_for_note_broker" /\ result.exc = "") =>
    /\ (result.classification = "HIGH_PRIORITY") <=>
         (HasContactChannel(args.row) /\ result.engagement_score >= 60)
    /\ result.classification # "HIGH_PRIORITY" =>
         /\ (result.classification = "MEDIUM_PRIORITY") <=> result.engagement_score >= 50
         /\ (result.classification = "LOW_PRIORITY") <=> result.engagement_score \in 30..49
         /\ (result.classification = "REVIEW") <=> result.engagement_score < 30

\* A row with a score of at least 60 and no contact channel was classified.
C21_Witness ==
  /\ prog = "classify_for_note_broker" /\ result.exc = ""
  /\ ~HasContactChannel(args.row)
  /\ result.engagement_score >= 60
  /\ result.classification = "MEDIUM_PRIORITY"

-----------------------------------------------------------------------------
(* classify_entity_roles: the role-based score modifiers                   *)

SCORE_MODIFIER_INVESTOR == 20

SCORE_MODIFIER_TRUST == 15

SCORE_MODIFIER_INDIVIDUAL == 10

SCORE_MODIFIER_LEGAL == 5

SCORE_MODIFIER_UNKNOWN == 0

\* A variant in which the individual outranks the investor.
get_role_score_modifier_PersonFirst(entity_role) ==
  CASE entity_role = "INVESTOR_ENTITY"   -> Some(SCORE_MODIFIER_TRUST)
    [] entity_role = "TRUST_ENTITY"      -> Some(SCORE_MODIFIER_INDIVIDUAL)
    [] entity_role = "INDIVIDUAL_PERSON" -> Some(SCORE_MODIFIER_INVESTOR)
    [] entity_role = "LEGAL_ENTITY"      -> Some(SCORE_MODIFIER_LEGAL)
    [] entity_role \in {"BANK_INSTITUTION", "GOVERNMENT_ENTITY", "UTILITY_OR_NONPROFIT"} -> NoValue
    [] OTHER -> Some(0)

\* get_role_score_modifier: NoValue is the modifier None of the three
\* excluded roles; a role that is no key of the table reads 0.
get_role_score_modifier(entity_role) ==
  CASE entity_role = "INVESTOR_ENTITY"   -> Some(SCORE_MODIFIER_INVESTOR)
    [] entity_role = "TRUST_ENTITY"      -> Some(SCORE_MODIFIER_TRUST)
    [] entity_role = "INDIVIDUAL_PERSON" -> Some(SCORE_MODIFIER_INDIVIDUAL)
    [] entity_role = "LEGAL_ENTITY"      -> Some(SCORE_MODIFIER_LEGAL)
    [] entity_role \in {"BANK_INSTITUTION", "GOVERNMENT_ENTITY", "UTILITY_OR_NONPROFIT"} -> NoValue
    [] entity_role = "UNKNOWN"           -> Some(SCORE_MODIFIER_UNKNOWN)
    [] OTHER -> Some(0)

\* apply_role_modifier: -1 for the modifier None, otherwise the sum kept
\* within 0..100.
apply_role_modifier(base_score, modifier) ==
  IF modifier = NoValue THEN 0 - 1
  ELSE Min2(100, Max2(0, base_score + modifier[1]))

-----------------------------------------------------------------------------
(* Two calls of a scoring function that differ in the category only        *)

CategoryScored(contribution, score) == [contribution |-> contribution, score |-> score]

\* What the category adds and the score of the call, in each function that
\* scores the category.
CategoryScore(fn, category, rest) ==
  CASE fn = "filter_notes.calculate_lead_score" ->
         CategoryScored(IF category = "BANK" THEN NoValue ELSE Some(FN_owner_signal(category)[1]),
                        FN_calculate_lead_score(category, rest.loan_amount, rest.doc_type,
                                                rest.recording_age, rest.is_seller_finance).score)
    [] fn = "generate_property_targets.calculate_lead_score" ->
         CategoryScored(Some(PT_owner_signal(category)[1]),
                        PT_calculate_lead_score(category, rest.total_value, rest.is_absentee,
                                                rest.min_value, rest.max_value).score)
    [] OTHER ->
         CategoryScored(get_role_score_modifier(category),
                        apply_role_modifier(rest.base_score, get_role_score_modifier(category)))

CategoriesOf(fn) ==
  CASE fn = "filter_notes.calculate_lead_score" -> OwnerTypes
    [] fn = "generate_property_targets.calculate_lead_score" -> OwnerTypes \ {"BANK"}
    [] OTHER -> EntityRoles

RestOf(fn) ==
  CASE fn = "filter_notes.calculate_lead_score" ->
         [loan_amount : {NoValue, Some(50000), Some(600000)},
          doc_type : {<<>>, <<"N","O","T","E">>},
          recording_age : {NoValue, Some(1826)},
          is_seller_finance : BOOLEAN]
    [] fn = "generate_property_targets.calculate_lead_score" ->
         [total_value : {NoValue, Some(300000), Some(700000)},
          is_absentee : BOOLEAN, min_value : {150000}, max_value : {600000}]
    [] OTHER -> [base_score : {0, 50, 85, 100}]

CategoryCalls ==
  UNION {[fn : {f}, first : CategoriesOf(f), second : CategoriesOf(f), rest : RestOf(f)] :
           f \in {"filter_notes.calculate_lead_score",
                  "generate_property_targets.calculate_lead_score",
                  "classify_entity_roles.apply_role_modifier"}}

InitCategory ==
  /\ prog = "category"
  /\ args \in CategoryCalls
  /\ result = [exc |-> "not called"]
  /\ StagesIdle

CategoryCalled(first, second) ==
  result' = [exc |-> "", first |-> first, second |-> second]

CallScoreTwice ==
  /\ prog = "category"
  /\ result.exc = "not called"
  /\ CategoryCalled(CategoryScore(args.fn, args.first, args.rest),
                    CategoryScore(args.fn, args.second, args.rest))
  /\ UNCHANGED <<prog, pc, rowsRead, counts, streams, cur, args>>

SpecCategory == InitCategory /\ [][CallScoreTwice]_vars

\* The rank of a category in "person > investor/corporate > trust > legal >
\* unknown" (1 is the highest); 0 for a category outside the order.
ClaimedRank(category) ==
  CASE category \in {"PERSON", "INDIVIDUAL_PERSON"} -> 1
    [] category \in {"LLC", "INVESTOR_ENTITY"} -> 2
    [] category \in {"TRUST", "TRUST_ENTITY"} -> 3
    [] category = "LEGAL_ENTITY" -> 4
    [] category = "UNKNOWN" -> 5
    [] OTHER -> 0

\* The rank of a role among the role modifiers: investor > trust > person >
\* legal > unknown.
RoleRank(category) ==
  CASE category = "INVESTOR_ENTITY" -> 1
    [] category = "TRUST_ENTITY" -> 2
    [] category = "INDIVIDUAL_PERSON" -> 3
    [] category = "LEGAL_ENTITY" -> 4
    [] category = "UNKNOWN" -> 5
    [] OTHER -> 0

\* The first call has the higher contribution, and not the lower score.
FirstAboveSecond ==
  /\ result.first.contribution # NoValue /\ result.second.contribution # NoValue
  /\ result.first.contribution[1] > result.second.contribution[1]
  /\ result.first.score >= result.second.score

\* C23: in every function that scores the entity category the contribution is
\* strictly ordered person > investor/corporate > trust > legal > unknown: of
\* two calls that differ in the category only, the one with the higher-ranked
\* category has the higher contribution and never the lower score.
C23_CategoryOrder ==
  (/\ prog = "category" /\ result.exc = ""
   /\ ClaimedRank(args.first) # 0 /\ ClaimedRank(args.second) # 0
   /\ ClaimedRank(args.first) < ClaimedRank(args.second)) => FirstAboveSecond

\* C23 (amended): the order person > LLC > trust > unknown holds in the two
\* calculate_lead_score functions; the role modifiers of classify_entity_roles
\* are ordered investor > trust > person > legal > unknown.
C23_CategoryOrderPerFunction ==
  (prog = "category" /\ result.exc = "") =>
    LET rank(c) == IF args.fn = "classify_entity_roles.apply_role_modifier"
                   THEN RoleRank(c) ELSE ClaimedRank(c)
    IN  (rank(args.first) # 0 /\ rank(args.second) # 0 /\ rank(args.first) < rank(args.second))
          => FirstAboveSecond

\* The role modifiers of an investor and of a person have been compared.
C23_Witness ==
  /\ prog = "category" /\ result.exc = ""
  /\ args.fn = "classify_entity_roles.apply_role_modifier"
  /\ args.first = "INVESTOR_ENTITY" /\ args.second = "INDIVIDUAL_PERSON"
  /\ FirstAboveSecond

-----------------------------------------------------------------------------
(* classify_entity_roles.process_entity_classification on one row          *)

\* int(float(text)) for the texts of the model: an optionally signed decimal
\* numeral is truncated towards zero, "nan" raises ValueError (NoValue),
\* "inf" raises OverflowError, any other text raises ValueError.
IntOfFloat(text) ==
  LET t     == Strip(text)
      neg   == t # <<>> /\ t[1] = "-"
      body  == IF t # <<>> /\ t[1] \in {"-", "+"} THEN Tail(t) ELSE t
      dots  == {i \in 1..Len(body) : body[i] = "."}
      whole == IF dots = {} THEN body ELSE SubSeq(body, 1, (CHOOSE i \in dots : TRUE) - 1)
      frac  == IF dots = {} THEN <<>> ELSE SubSeq(body, (CHOOSE i \in dots : TRUE) + 1, Len(body))
      digits(s) == \A i \in 1..Len(s) : IsDigit(s[i])
  IN  IF Lower(body) \in {<<"i","n","f">>, <<"i","n","f","i","n","i","t","y">>}
      THEN [exc |-> "OverflowError", value |-> NoValue]
      ELSE IF Cardinality(dots) <= 1 /\ digits(whole) /\ digits(frac) /\ whole \o frac # <<>>
      THEN [exc |-> "", value |-> Some(IF neg THEN 0 - DigitsVal(whole) ELSE DigitsVal(whole))]
      ELSE [exc |-> "", value |-> NoValue]

\* parse_engagement_score: the cell is stripped before it is tested, so a
\* cell None raises AttributeError; an empty or unparseable cell reads 0.
parse_engagement_score(row) ==
  LET cell == RowGet(row, "engagement_score", <<>>)
  IN  IF cell = None THEN [exc |-> "AttributeError", value |-> 0]
      ELSE IF Strip(cell) = <<>> THEN [exc |-> "", value |-> 0]
      ELSE LET n == IntOfFloat(Strip(cell))
           IN  [exc |-> n.exc, value |-> IF n.value = NoValue THEN 0 ELSE n.value[1]]

ER_Raised(exc) ==
  [exc |-> exc, entity_role |-> "", role_score_modifier |-> <<>>,
   engagement_score |-> <<>>, output_file |-> ""]

ER_Written(entity_role, role_score_modifier, engagement_score, output_file) ==
  [exc |-> "", entity_role |-> entity_role, role_score_modifier |-> role_score_modifier,
   engagement_score |-> engagement_score, output_file |-> output_file]

\* A variant that leaves the score of apply_role_modifier in the row.
ER_enriched_row_KeepsSentinel(row, c, base, rejected) ==
  IF c.exc # "" THEN ER_Raised(c.exc)
  ELSE IF base.exc # "" THEN ER_Raised(base.exc)
  ELSE IF rejected THEN ER_Raised("ValueError")
  ELSE LET modifier == get_role_score_modifier(c.role)
       IN  ER_Written(c.role,
                      IF modifier # NoValue THEN SignedStr(modifier[1]) ELSE <<"E","X","C","L","U","D","E","D">>,
                      SignedStr(apply_role_modifier(base.value, modifier)),
                      get_output_file_for_role(c.role))

\* The body of the row loop: the row that is written and the file it goes to.
ER_enriched_row(row, c, base, rejected) ==
  IF c.exc # "" THEN ER_Raised(c.exc)
  ELSE IF base.exc # "" THEN ER_Raised(base.exc)
  ELSE IF rejected THEN ER_Raised("ValueError")
  ELSE LET modifier == get_role_score_modifier(c.role)
           modified_score == apply_role_modifier(base.value, modifier)
       IN  ER_Written(c.role,
                      IF modifier # NoValue THEN SignedStr(modifier[1]) ELSE <<"E","X","C","L","U","D","E","D">>,
                      SignedStr(IF modified_score = 0 - 1 THEN 0 ELSE modified_score),
                      get_output_file_for_role(c.role))

\* Lines of an entity file: a name, an owner type and a score cell; a line may
\* be short of cells or have one too many.
EntityScoreLines ==
  LET full == { <<n, ot, es>> :
                  n  \in { <<"B","A","N","K">>, <<"C","I","T","Y"," ","O","F">>, <<"W","A","T","E","R">>, <<"T","R","U","S","T">>, <<"H","O","L","D","I","N","G","S">>, <<"L","A","W">>, <<"S","M","I","T","H">>, <<>> },
                  ot \in { <<"P","E","R","S","O","N">>, <<"L","L","C">> },
                  es \in { <<>>, <<"0">>, <<"5","0">>, <<" ","7","0"," ">>, <<"8","5",".","9">>, <<"1","0","0">>,
                           <<"2","5","0">>, <<"-","5">>, <<"a","b","c">>, <<"n","a","n">>, <<"i","n","f">> } }
  IN  full \cup {l \o <<<<"x">>>> : l \in full} \cup {FirstCells(l, 2) : l \in full}

InitEntityRow ==
  /\ prog = "entity row"
  /\ args \in [fieldnames : EntityHeaders, cells : EntityScoreLines]
  /\ result = ER_Raised("not called")
  /\ StagesIdle

EntityRowWritten(enriched_row) == result' = enriched_row

WriteEntityRow ==
  /\ prog = "entity row"
  /\ result.exc = "not called"
  /\ LET row == DictReaderRow(args.fieldnames, args.cells)
     IN  EntityRowWritten(ER_enriched_row(row, classify_entity_role(row), parse_engagement_score(row),
                         writer_rejects(DOMAIN row \cup ER_added_columns \cup {"engagement_score"},
                                        Columns(args.fieldnames) \cup ER_added_columns)))
  /\ UNCHANGED <<prog, pc, rowsRead, counts, streams, cur, args>>

SpecEntityRow == InitEntityRow /\ [][WriteEntityRow]_vars

ExcludedRoles == {"BANK_INSTITUTION", "GOVERNMENT_ENTITY", "UTILITY_OR_NONPROFIT"}

C24_RowWritten == prog = "entity row" /\ result.exc = ""

\* The text is a decimal numeral, optionally signed.
C24_IsNumeral(text) ==
  LET body == IF text # <<>> /\ text[1] = "-" THEN Tail(text) ELSE text
  IN  body # <<>> /\ \A i \in 1..Len(body) : body[i] \in {"0","1","2","3","4","5","6","7","8","9"}

\* C24: a row whose role is BANK_INSTITUTION, GOVERNMENT_ENTITY or
\* UTILITY_OR_NONPROFIT is written marked EXCLUDED, with no numeric score, to
\* the excluded-entities file and to no priority file.
C24_ExcludedCarriesNoScore ==
  (C24_RowWritten /\ result.entity_role \in ExcludedRoles) =>
    /\ result.role_score_modifier = <<"E","X","C","L","U","D","E","D">>
    /\ ~C24_IsNumeral(result.engagement_score)
    /\ result.output_file = "note_broker_excluded_entities.csv"

\* C24 (amended): such a row is written with role_score_modifier EXCLUDED and
\* with engagement_score "0" whatever its base score, to the excluded-entities
\* file; no row of another role is marked EXCLUDED or written to that file.
C24_ExcludedMarkedAndZeroed ==
  C24_RowWritten =>
    /\ result.entity_role \in ExcludedRoles =>
         /\ result.role_score_modifier = <<"E","X","C","L","U","D","E","D">>
         /\ result.engagement_score = <<"0">>
         /\ result.output_file = "note_broker_excluded_entities.csv"
    /\ result.entity_role \notin ExcludedRoles =>
         /\ C24_IsNumeral(result.role_score_modifier)
         /\ result.output_file # "note_broker_excluded_entities.csv"

\* A bank row with the base score 85 has been written.
C24_Witness ==
  /\ C24_RowWritten
  /\ result.entity_role = "BANK_INSTITUTION"
  /\ args.cells[3] = <<"8","5",".","9">>
  /\ result.engagement_score = <<"0">>

-----------------------------------------------------------------------------
(* The identifier and address lists of one large owner group               *)

MaxMembers == 22

\* The members of a group of n rows: member i has the account id "A<i>", or
\* a blank one where skip says so, an address where it has an id or is even,
\* and a city when i is odd; the first member carries the given score and
\* reason trail.
GroupMembers(n, skip, score, why) ==
  [i \in 1..n |->
     [tcad_account_id |-> IF skip # 0 /\ i % skip = 0 THEN <<" ">> ELSE <<" ", "A">> \o IntStr(i),
      situs_address   |-> IF skip = 1 /\ i % 2 = 1 THEN <<>> ELSE IntStr(i) \o <<" ","O","A","K"," ">>,
      situs_city      |-> IF i % 2 = 1 THEN <<"A","U","S","T","I","N">> ELSE <<" ">>,
      total_value     |-> <<"1","0","0">>,
      engagement_score |-> IF i = 1 THEN score ELSE <<"9","9">>,
      why_flagged     |-> IF i = 1 THEN why ELSE <<"x">>,
      has_email |-> <<"N">>, has_phone |-> <<"N">>]]

MemberColumns ==
  {"tcad_account_id", "situs_address", "situs_city", "total_value", "engagement_score",
   "why_flagged", "has_email", "has_phone"}

BaseScores == {<<"0">>, <<"5","0">>, <<"9","5">>, <<"1","0","0">>, <<>>, <<" ","7"," ">>, <<"a","b","c">>}

InitLists ==
  /\ prog = "lists"
  /\ args \in [grouper : Groupers, n : 1..MaxMembers, skip : 0..3, score : BaseScores,
               why : {<<>>, <<" ","a","b","s","e","n","t","e","e"," ">>}]
  /\ result = Consolidated("not called", <<>>)
  /\ StagesIdle

ListsMembers == GroupMembers(args.n, args.skip, args.score, args.why)

ListsWritten(written) == result' = written

\* The pass of the loop over the groups, of either program, on one group.
AggregateGroup ==
  /\ prog = "lists"
  /\ result.exc = "not called"
  /\ IF args.grouper = "group_by_owner"
     THEN ListsWritten(owner_consolidated(ListsMembers,
                         MemberColumns \cup {"property_count_actual", "property_ids", "total_portfolio_value"}))
     ELSE ListsWritten(entity_consolidated(ListsMembers,
                         MemberColumns \cup {"properties_count", "total_portfolio_value", "avg_property_value",
                                             "property_ids", "property_addresses", "max_engagement_score",
                                             "has_any_email", "has_any_phone"}))
  /\ UNCHANGED <<prog, pc, rowsRead, counts, streams, cur, args>>

SpecLists == InitLists /\ [][AggregateGroup]_vars

\* The non-blank identifiers of the members, trimmed, in input order.
C25_Ids ==
  LET all == [i \in 1..args.n |-> C10_Trimmed(ListsMembers[i].tcad_account_id)]
  IN  SelectSeq(all, LAMBDA v : v # <<>>)

\* text lists the items if they are at most cap, and otherwise the first cap
\* of them followed by a suffix that holds "+N more".
C25_CappedAndMarked(text, listed_items, cap) ==
  IF Len(listed_items) <= cap THEN text = Join(listed_items, <<" ","|"," ">>)
  ELSE LET listed == Join(SubSeq(listed_items, 1, cap), <<" ","|"," ">>)
       IN  /\ Len(text) > Len(listed)
           /\ SubSeq(text, 1, Len(listed)) = listed
           /\ Contains(SubSeq(text, Len(listed) + 1, Len(text)),
                       <<"+">> \o IntStr(Len(listed_items) - cap) \o <<" ","m","o","r","e">>)

\* C25: the list of member identifiers of a consolidated record holds all the
\* identifiers when they are at most the cap (10 in group_by_owner, 20 in
\* group_investor_entities), and otherwise the first cap identifiers followed
\* by a "+N more" suffix, N the number left out.
C25_IdsCappedAndMarked ==
  (prog = "lists" /\ result.exc = "") =>
    C25_CappedAndMarked(result.row["property_ids"], C25_Ids,
                        IF args.grouper = "group_by_owner" THEN 10 ELSE 20)

\* The score of the first member: the score the group has without the bonus.
C26_BaseScore == IF C10_Trimmed(args.score) = <<>> THEN 0 ELSE ToInt(args.score)[1]

C26_GroupWritten == prog = "lists" /\ args.grouper = "group_by_owner" /\ result.exc = ""

\* C26: group_properties_by_owner writes a group of n > 1 members with the
\* score min(100, s + min(10, n - 1)), s the score without the bonus: the
\* score is not below s, at most 10 above it and not above 100, and the
\* reason trail ends with "n properties"; a group of one member keeps its
\* score and its reason trail as they are.
C26_BoundedPortfolioBonus ==
  C26_GroupWritten =>
    LET s == C26_BaseScore
        score == ToInt(result.row["engagement_score"])[1]
        annotation == IntStr(args.n) \o <<" ","p","r","o","p","e","r","t","i","e","s">>
    IN  IF args.n > 1
        THEN /\ score = Min2(100, s + Min2(10, args.n - 1))
             /\ score >= s /\ score <= s + 10 /\ score <= 100
             /\ result.row["why_flagged"] =
                  (IF C10_Trimmed(args.why) = <<>> THEN annotation
                   ELSE C10_Trimmed(args.why) \o <<" ","+"," ">> \o annotation)
        ELSE /\ result.row["engagement_score"] = args.score
             /\ result.row["why_flagged"] = args.why

\* A group of twelve or more members with the base score 95 has been written
\* with the score 100, and one with the base score 50 with the score 60.
C26_Witness ==
  /\ C26_GroupWritten /\ args.n >= 12
  /\ \/ args.score = <<"9","5">> /\ result.row["engagement_score"] = <<"1","0","0">>
     \/ args.score = <<"5","0">> /\ result.row["engagement_score"] = <<"6","0">>

-----------------------------------------------------------------------------
(* scripts/lee_arnold_favorites.py: the two passes of process_tcad_file    *)

DEFAULT_FHA_CAP == 498257

MAX_LAND_VALUE_FOR_HALF_ACRE == 250000

INSTITUTIONAL_KEYWORDS ==
  << <<"B","A","N","K">>,  \* BANK
     <<"N",".","A",".">>,  \* N.A.
     <<"N","A">>,  \* NA
     <<"M","O","R","T","G","A","G","E">>,  \* MORTGAGE
     <<"S","E","R","V","I","C","I","N","G">>,  \* SERVICING
     <<"F","N","M","A">>,  \* FNMA
     <<"F","A","N","N","I","E"," ","M","A","E">>,  \* FANNIE MAE
     <<"F","A","N","N","I","E">>,  \* FANNIE
     <<"F","R","E","D","D","I","E"," ","M","A","C">>,  \* FREDDIE MAC
     <<"F","R","E","D","D","I","E">>,  \* FREDDIE
     <<"F","H","L","M","C">>,  \* FHLMC
     <<"H","U","D">>,  \* HUD
     <<"V","A">>,  \* VA
     <<"U","S","D","A">>,  \* USDA
     <<"C","R","E","D","I","T"," ","U","N","I","O","N">>,  \* CREDIT UNION
     <<"A","S","S","O","C","I","A","T","I","O","N">>,  \* ASSOCIATION
     <<"T","R","U","S","T"," ","C","O","M","P","A","N","Y">>,  \* TRUST COMPANY
     <<"W","E","L","L","S"," ","F","A","R","G","O">>,  \* WELLS FARGO
     <<"W","E","L","L","S">>,  \* WELLS
     <<"J","P","M","O","R","G","A","N">>,  \* JPMORGAN
     <<"J","P"," ","M","O","R","G","A","N">>,  \* JP MORGAN
     <<"C","H","A","S","E">>,  \* CHASE
     <<"B","A","N","K"," ","O","F"," ","A","M","E","R","I","C","A">>,  \* BANK OF AMERICA
     <<"B","A","N","K"," ","O","F"," ","A","M","E","R">>,  \* BANK OF AMER
     <<"B","O","A">>,  \* BOA
     <<"C","I","T","I","B","A","N","K">>,  \* CITIBANK
     <<"C","I","T","I">>,  \* CITI
     <<"U",".","S","."," ","B","A","N","K">>,  \* U.S. BANK
     <<"U","S"," ","B","A","N","K">>,  \* US BANK
     <<"U","S","B","A","N","K">>,  \* USBANK
     <<"P","N","C">>,  \* PNC
     <<"T","R","U","I","S","T">>,  \* TRUIST
     <<"C","A","P","I","T","A","L"," ","O","N","E">>,  \* CAPITAL ONE
     <<"C","A","P","I","T","A","L","O","N","E">>,  \* CAPITALONE
     <<"R","E","G","I","O","N","S"," ","B","A","N","K">>,  \* REGIONS BANK
     <<"R","E","G","I","O","N","S">>,  \* REGIONS
     <<"S","U","N","T","R","U","S","T">>,  \* SUNTRUST
     <<"B","B","&","T">>,  \* BB&T
     <<"B","B","T">>,  \* BBT
     <<"T","D"," ","B","A","N","K">>,  \* TD BANK
     <<"H","S","B","C">>,  \* HSBC
     <<"M","O","R","G","A","N"," ","S","T","A","N","L","E","Y">>,  \* MORGAN STANLEY
     <<"G","O","L","D","M","A","N"," ","S","A","C","H","S">>,  \* GOLDMAN SACHS
     <<"M","E","R","R","I","L","L"," ","L","Y","N","C","H">>,  \* MERRILL LYNCH
     <<"F","I","D","E","L","I","T","Y">>,  \* FIDELITY
     <<"V","A","N","G","U","A","R","D">> >>  \* VANGUARD

LA_complex_patterns ==
  << <<"T","R","U","S","T"," ","D","A","T","E","D">>,  \* TRUST DATED
     <<"R","E","V","O","C","A","B","L","E"," ","T","R","U","S","T">>,  \* REVOCABLE TRUST
     <<"I","R","R","E","V","O","C","A","B","L","E"," ","T","R","U","S","T">>,  \* IRREVOCABLE TRUST
     <<"F","A","M","I","L","Y"," ","T","R","U","S","T"," ","D","A","T","E","D">>,  \* FAMILY TRUST DATED
     <<"E","S","T","A","T","E"," ","O","F">>,  \* ESTATE OF
     <<"H","E","I","R","S"," ","O","F">>,  \* HEIRS OF
     <<"U","N","K","N","O","W","N">>,  \* UNKNOWN
     <<"E","T"," ","A","L">>,  \* ET AL
     <<"E","T","A","L">>,  \* ETAL
     <<"E","T","C">>,  \* ETC
     <<"E","T","C",".">>,  \* ETC.
     <<"E","T"," ","C","E","T","E","R","A">> >>  \* ET CETERA

is_institutional_owner(owner_name) ==
  owner_name # <<>> /\ AnyIn(INSTITUTIONAL_KEYWORDS, Upper(owner_name))

is_complex_owner_name(owner_name) ==
  /\ owner_name # <<>>
  /\ \/ Len(owner_name) > 80
     \/ AnyIn(LA_complex_patterns, Upper(owner_name))
     \/ Cardinality({i \in 1..Len(owner_name) : owner_name[i] = ","}) > 2

\* is_vacant_land: no improvement value, or one below 10000.
is_vacant_land(row) ==
  LET improvement_value == parse_amount(RowGet(row, "improvement_value", <<>>))
  IN  improvement_value = NoValue \/ improvement_value[1] = 0 \/ improvement_value[1] < 10000

\* is_residential_property: one of R, R1..R5, or any type that starts with R.
is_residential_property(property_type) ==
  /\ property_type # <<>>
  /\ Upper(Strip(property_type)) # <<>>
  /\ Upper(Strip(property_type))[1] = "R"

\* normalize_address, for addresses without a street word or punctuation.
LA_normalize_address(address) ==
  IF address = None \/ address = <<>> THEN <<>> ELSE JoinSpace(SplitWords(Upper(Strip(address))))

LA_is_absentee_owner(row) ==
  LET mailing == LA_normalize_address(RowGet(row, "mailing_address", <<>>))
      situs   == LA_normalize_address(RowGet(row, "situs_address", <<>>))
  IN  mailing # <<>> /\ situs # <<>> /\ mailing # situs

\* lee_arnold_favorites.calculate_lead_score: the value, the absentee and the
\* property-count signal, the sum kept within 0..100.
LA_calculate_lead_score(total_value, fha_cap, is_absentee, property_count) ==
  LET value == IF total_value # NoValue /\ total_value[1] # 0
               THEN IF total_value[1] <= fha_cap
                    THEN <<40, <<"u","n","d","e","r"," ","F","H","A"," ","c","a","p">>>>
                    ELSE <<20, <<"o","v","e","r"," ","F","H","A"," ","c","a","p">>>>
               ELSE <<0 - 10, <<"m","i","s","s","i","n","g"," ","v","a","l","u","e">>>>
      absentee == IF is_absentee THEN <<30, <<"a","b","s","e","n","t","e","e"," ","o","w","n","e","r">>>>
                  ELSE <<15, <<"o","w","n","e","r"," ","o","c","c","u","p","i","e","d">>>>
      portfolio == IF property_count >= 3
                   THEN <<20, IntStr(property_count) \o <<" ","p","r","o","p","e","r","t","i","e","s">>>>
                   ELSE IF property_count = 2 THEN <<10, <<"2"," ","p","r","o","p","e","r","t","i","e","s">>>>
                   ELSE <<5, <<"1"," ","p","r","o","p","e","r","t","y">>>>
  IN  [score |-> Max2(0, Min2(100, value[1] + absentee[1] + portfolio[1])),
       why_flagged |-> Join(FirstN(<<value[2], absentee[2], portfolio[2]>>, 4), <<" ","+"," ">>)]

LA_Classified(classification, owner_type, lead_score) ==
  [exc |-> "", classification |-> classification, owner_type |-> owner_type,
   lead_score |-> lead_score]

LA_Raised(exc) == [exc |-> exc, classification |-> "", owner_type |-> "", lead_score |-> 0]

\* lee_arnold_favorites.classify_property_row; a cell None under owner_name
\* or property_type raises AttributeError at its first two lines.
LA_classify_property_row(row, fha_cap, property_count) ==
  IF Unguarded(row, {"owner_name", "property_type"}) THEN LA_Raised("AttributeError")
  ELSE
  LET owner_name == Strip(RowGet(row, "owner_name", <<>>))
      property_type == Strip(RowGet(row, "property_type", <<>>))
      total_value == parse_amount(RowGet(row, "total_value", <<>>))
      land_value == parse_amount(RowGet(row, "land_value", <<>>))
  IN  IF is_institutional_owner(owner_name) THEN LA_Classified("DISCARD", "INSTITUTIONAL", 0)
      ELSE IF is_complex_owner_name(owner_name) THEN LA_Classified("DISCARD", "COMPLEX", 0)
      ELSE IF is_vacant_land(row) THEN LA_Classified("DISCARD", "VACANT", 0)
      ELSE IF ~is_residential_property(property_type)
      THEN LA_Classified("DISCARD", "NON_RESIDENTIAL", 0)
      ELSE IF total_value = NoValue \/ total_value[1] <= 0
      THEN LA_Classified("REVIEW", "UNKNOWN", 0)
      ELSE IF 10 * total_value[1] > 11 * fha_cap THEN LA_Classified("REVIEW", "VALUE", 0)
      ELSE IF land_value # NoValue /\ land_value[1] > MAX_LAND_VALUE_FOR_HALF_ACRE
              /\ 10 * land_value[1] > 6 * 500000
      THEN LA_Classified("REVIEW", "LOT_SIZE", 0)
      ELSE LA_Classified("TARGET",
                         IF Contains(Upper(owner_name), <<"L","L","C">>) THEN "LLC"
                         ELSE IF Contains(Upper(owner_name), <<"T","R","U","S","T">>) THEN "TRUST"
                         ELSE "PERSON",
                         LA_calculate_lead_score(total_value, fha_cap,
                                                 LA_is_absentee_owner(row), property_count).score)

\* A variant of the first pass that notes an owner without counting.
owner_counted_Once(owner_counts, row) ==
  LET owner_name == Upper(Strip(RowGet(row, "owner_name", <<>>)))
  IN  IF owner_name = <<>> THEN owner_counts
      ELSE [o \in DOMAIN owner_counts \cup {owner_name} |-> 1]

\* The loop body of count_properties_per_owner: owner_counts[owner_name] += 1
\* for a non-empty stripped, upper-cased owner_name.
owner_counted(owner_counts, row) ==
  LET owner_name == Upper(Strip(RowGet(row, "owner_name", <<>>)))
  IN  IF owner_name = <<>> THEN owner_counts
      ELSE [o \in DOMAIN owner_counts \cup {owner_name} |->
              IF o = owner_name
              THEN (IF o \in DOMAIN owner_counts THEN owner_counts[o] ELSE 0) + 1
              ELSE owner_counts[o]]

\* owner_counts.get(owner_name, 1) in the second pass.
owner_count(owner_counts, row) ==
  LET owner_name == Upper(Strip(RowGet(row, "owner_name", <<>>)))
  IN  IF owner_name \in DOMAIN owner_counts THEN owner_counts[owner_name] ELSE 1

\* build_target_row, the columns that depend on the count and the class (the
\* row is rebuilt from .get(...).strip() of eleven columns, so a cell None
\* under one of them raises AttributeError); row_num is the line of the file
\* the row was built from.
LA_target_row(row_num, row, c, property_count) ==
  [row_num |-> row_num,
   owner_type |-> c.owner_type,
   total_value |-> Strip(RowGet(row, "total_value", <<>>)),
   property_count |-> IntStr(property_count),
   lead_score |-> IntStr(c.lead_score)]

LeeHeader == <<"account_id", "owner_name", "improvement_value", "property_type", "total_value">>

\* Lines of a TCAD file: two spellings of one owner, a company, a bank, a row
\* without an owner, vacant land, a line cut after the owner, one cut
\* before the owner and one cut before the value.
LeeLines ==
  { <<<<"A","1">>, <<"J","O","H","N"," ","S","M","I","T","H">>, <<"1","5","0","0","0","0">>, <<"R","1">>, <<"3","0","0","0","0","0">>>>,
    <<<<"A","2">>, <<" ","j","o","h","n"," ","s","m","i","t","h"," ">>, <<"1","5","0","0","0","0">>, <<"R">>, <<"5","1","0","0","0","0">>>>,
    <<<<"A","3">>, <<"A","C","M","E"," ","L","L","C">>, <<"1","5","0","0","0","0">>, <<"R","2">>, <<"$","6","0","0",",","0","0","0">>>>,
    <<<<"A","4">>, <<"F","I","R","S","T"," ","B","A","N","K">>, <<"1","5","0","0","0","0">>, <<"R","1">>, <<"3","0","0","0","0","0">>>>,
    <<<<"A","5">>, <<>>, <<"1","5","0","0","0","0">>, <<"R","1">>, <<"3","0","0","0","0","0">>>>,
    <<<<"A","6">>, <<"J","O","H","N"," ","S","M","I","T","H">>, <<"5","0","0","0">>, <<"C","1">>, <<>>>>,
    <<<<"A","7">>, <<"J","O","H","N"," ","S","M","I","T","H">>>>,
    <<<<"A","9">>, <<"A","C","M","E"," ","L","L","C">>, <<"1","5","0","0","0","0">>, <<"R","1">>>>,
    <<<<"A","8">>>> }

MaxLeeRows == 3

LeeFiles == UNION {[1..n -> LeeLines] : n \in 0..MaxLeeRows}

NoOutput == [targets |-> <<>>, review |-> <<>>, discarded |-> <<>>]

InitLee ==
  /\ prog = "lee_arnold_favorites"
  /\ args \in [lines : LeeFiles, fha_cap : {DEFAULT_FHA_CAP}]
  /\ pc = "count"
  /\ rowsRead = 0
  /\ counts = [targets |-> 0, review |-> 0, discarded |-> 0]
  /\ streams = NoOutput
  /\ cur = <<>>
  /\ result = [exc |-> "running"]

LeeRow == DictReaderRow(LeeHeader, args.lines[rowsRead + 1])

\* One row of the first pass (count_properties_per_owner).
CountOwnerRow ==
  /\ prog = "lee_arnold_favorites" /\ pc = "count"
  /\ rowsRead < Len(args.lines)
  /\ IF Unguarded(LeeRow, {"owner_name"})
     THEN /\ pc' = "aborted"
          /\ result' = [exc |-> "AttributeError"]
          /\ UNCHANGED <<rowsRead, cur>>
     ELSE /\ cur' = owner_counted(cur, LeeRow)
          /\ rowsRead' = rowsRead + 1
          /\ UNCHANGED <<pc, result>>
  /\ UNCHANGED <<prog, counts, streams, args>>

\* The first pass is through: the table is returned, the output files are
\* opened and the file is read again from its first row.
CountEnd ==
  /\ prog = "lee_arnold_favorites" /\ pc = "count"
  /\ rowsRead = Len(args.lines)
  /\ pc' = "process"
  /\ rowsRead' = 0
  /\ UNCHANGED <<prog, counts, streams, cur, args, result>>

LeeStream(classification) ==
  CASE classification = "TARGET" -> "targets"
    [] classification = "REVIEW" -> "review"
    [] OTHER -> "discarded"

LeeWritten(stream, target_row) ==
  /\ streams' = [streams EXCEPT ![stream] = Append(@, target_row)]
  /\ counts' = [counts EXCEPT ![stream] = @ + 1]
  /\ rowsRead' = rowsRead + 1
  /\ UNCHANGED <<pc, result>>

\* One row of the second pass: the count is looked up, the row classified,
\* rebuilt and written to the file of its class.
ProcessTcadRow ==
  /\ prog = "lee_arnold_favorites" /\ pc = "process"
  /\ rowsRead < Len(args.lines)
  /\ LET c == LA_classify_property_row(LeeRow, args.fha_cap, owner_count(cur, LeeRow))
     IN  IF c.exc # "" \/ Unguarded(LeeRow, {"total_value"})
         THEN /\ pc' = "aborted"
              /\ result' = [exc |-> "AttributeError"]
              /\ UNCHANGED <<rowsRead, counts, streams>>
         ELSE LeeWritten(LeeStream(c.classification),
                         LA_target_row(rowsRead + 2, LeeRow, c, owner_count(cur, LeeRow)))
  /\ UNCHANGED <<prog, cur, args>>

ProcessTcadEnd ==
  /\ prog = "lee_arnold_favorites" /\ pc = "process"
  /\ rowsRead = Len(args.lines)
  /\ pc' = "done"
  /\ result' = [exc |-> ""]
  /\ UNCHANGED <<prog, rowsRead, counts, streams, cur, args>>

NextLee == CountOwnerRow \/ CountEnd \/ ProcessTcadRow \/ ProcessTcadEnd

SpecLee == InitLee /\ [][NextLee]_vars

\* The owner name of the input row on line row_num of the file (the header is
\* line 1), trimmed and upper-cased; empty for a line without that cell.
C27_Owner(row_num) ==
  IF Len(args.lines[row_num - 1]) < 2 THEN <<>>
  ELSE Upper(C10_Trimmed(args.lines[row_num - 1][2]))

\* The number of input rows of an owner.
C27_Total(owner) == Cardinality({i \in 1..Len(args.lines) : C27_Owner(i + 1) = owner})

C27_Emitted ==
  {streams.targets[i] : i \in 1..Len(streams.targets)}
    \cup {streams.review[i] : i \in 1..Len(streams.review)}
    \cup {streams.discarded[i] : i \in 1..Len(streams.discarded)}

\* C27: lee_arnold_favorites is two-pass. No row is written while the owner
\* table is being built; from the first row of the second pass on the table
\* holds, for every owner of the input, the number of its rows in the whole
\* input, and does not change; every written row with a non-empty owner name
\* carries that number as its property_count, wherever the row is in the file.
C27_CountsAreFinal ==
  prog = "lee_arnold_favorites" =>
    /\ pc = "count" => streams = NoOutput
    /\ pc \in {"process", "done"} =>
         /\ DOMAIN cur = {C27_Owner(i + 1) : i \in 1..Len(args.lines)} \ {<<>>}
         /\ \A o \in DOMAIN cur : cur[o] = C27_Total(o)
    /\ \A r \in C27_Emitted :
         C27_Owner(r.row_num) # <<>> => r.property_count = IntStr(C27_Total(C27_Owner(r.row_num)))

\* The run is through and the first row of the file, of an owner with three
\* rows in the file, was written with the count 3.
C27_Witness ==
  /\ prog = "lee_arnold_favorites" /\ pc = "done"
  /\ \E r \in C27_Emitted :
       /\ r.row_num = 2 /\ r.property_count = <<"3">>
       /\ C27_Total(C27_Owner(2)) = 3

-----------------------------------------------------------------------------
(* The recorder pipelines on a file whose header was mapped by map_columns *)

REQUIRED_FIELDS == <<"lender_name", "loan_amount">>

\* The columns of the recorder files: the name in the header and the key of
\* the column in a row.
ColumnNames ==
  [lender_name |-> FieldText["lender_name"], loan_amount |-> FieldText["loan_amount"],
   doc_type |-> FieldText["doc_type"], recording_date |-> FieldText["recording_date"],
   property_address |-> FieldText["property_address"],
   Name |-> <<"N","a","m","e">>, Size |-> <<"S","i","z","e">>]

ColumnKey(name) == CHOOSE k \in DOMAIN ColumnNames : ColumnNames[k] = name

HeaderText(input_columns) == [i \in 1..Len(input_columns) |-> ColumnNames[input_columns[i]]]

\* Header rows in which the lender column, the amount column or both have a
\* name that no alias is close to.
RecorderHeaders ==
  { RecorderHeader,
    <<"Name", "loan_amount", "doc_type", "recording_date", "property_address">>,
    <<"lender_name", "Size", "doc_type", "recording_date", "property_address">>,
    <<"Name", "Size", "doc_type", "recording_date", "property_address">> }

RecorderStages == {"filter_private_notes", "filter_notes"}

\* main() of either pipeline: the header is mapped by map_columns, then
\* process_recorder_file reads the rows.
InitRecorder ==
  /\ prog \in RecorderStages
  /\ pc = "map"
  /\ rowsRead = 0
  /\ counts = [by_tier |-> [t \in StageTiers(prog) |-> 0],
               lender_type_counter |->
                 [t \in (IF prog = "filter_private_notes" THEN OwnerTypes ELSE {}) |-> 0]]
  /\ streams = [f \in StageFiles(prog) |-> <<>>]
  /\ cur = [column_mapping |-> NoMapping, found |-> <<>>, missing |-> <<>>]
  /\ args \in [input_columns : RecorderHeaders, column_mapping : {NoMapping}]
  /\ result = [exc |-> "running"]

\* One pass of the loop of map_columns over CANONICAL_FIELDS.
MapRecorderField ==
  /\ prog \in RecorderStages
  /\ pc = "map"
  /\ rowsRead < Len(CANONICAL_FIELD_NAMES)
  /\ FieldMapped(CANONICAL_FIELD_NAMES[rowsRead + 1],
                 best_match(CANONICAL_FIELD_NAMES[rowsRead + 1], HeaderText(args.input_columns),
                            cur.column_mapping, 1, NoColumn))

\* map_columns returns (a missing required field is only printed) and
\* process_recorder_file is called with the mapping.
MapRecorderEnd ==
  /\ prog \in RecorderStages
  /\ pc = "map"
  /\ rowsRead = Len(CANONICAL_FIELD_NAMES)
  /\ pc' = "run"
  /\ rowsRead' = 0
  /\ args' = [args EXCEPT !.column_mapping =
                [f \in DOMAIN cur.column_mapping |-> ColumnKey(cur.column_mapping[f])]]
  /\ cur' = NoRow
  /\ UNCHANGED <<prog, counts, streams, result>>

NextRecorder ==
  \/ MapRecorderField
  \/ MapRecorderEnd
  \/ ProcessPrivateNoteRow
  \/ ProcessNoteRow
  \/ EndOfInput

SpecRecorder == InitRecorder /\ [][NextRecorder]_vars

C28_RequiredUnmapped ==
  /\ prog \in RecorderStages /\ pc # "map"
  /\ \E i \in 1..Len(REQUIRED_FIELDS) : REQUIRED_FIELDS[i] \notin DOMAIN args.column_mapping

\* C28: when a required field (lender_name, loan_amount) failed to map, the
\* run is not aborted: every row read is written to an outcome file, and no
\* row is a LEAD (each is in the review or the discard file).
C28_RunsWithoutRequiredField ==
  C28_RequiredUnmapped =>
    /\ pc # "aborted"
    /\ \A n \in 1..rowsRead :
         FilesHolding(n) \in {{"review_queue.csv"}, {"discarded.csv"}}
    /\ counts.by_tier["leads"] = 0

-----------------------------------------------------------------------------
(* generate_property_targets.classify_property_row                         *)

DEFAULT_MIN_VALUE == 150000

DEFAULT_MAX_VALUE == 600000

\* generate_property_targets.detect_owner_type: filter_notes' function
\* without the bank check.
PT_detect_owner_type(owner_name) ==
  IF owner_name = <<>> \/ Strip(owner_name) = <<>> THEN "UNKNOWN"
  ELSE detect_non_bank_type(owner_name)

\* scored: calculate_lead_score was called.
PT_Classified(classification, owner_type, lead_score, why_flagged, scored) ==
  [exc |-> "", classification |-> classification, owner_type |-> owner_type,
   lead_score |-> lead_score, why_flagged |-> why_flagged, scored |-> scored]

PT_Raised(exc) ==
  [exc |-> exc, classification |-> "", owner_type |-> "", lead_score |-> 0,
   why_flagged |-> <<>>, scored |-> FALSE]

PT_Target(owner_type, scored) ==
  PT_Classified("TARGET", owner_type, scored.score, scored.why_flagged, TRUE)

\* A variant that scores a row before its value is checked against the range.
PT_classify_property_row_ScoreFirst(row, min_value, max_value, only_absentee) ==
  IF Unguarded(row, {"owner_name"}) THEN PT_Raised("AttributeError")
  ELSE
  LET owner_name == Strip(RowGet(row, "owner_name", <<>>))
      owner_type == PT_detect_owner_type(owner_name)
      is_absentee == LA_is_absentee_owner(row)
      total_value == parse_amount(RowGet(row, "total_value", <<>>))
  IN  IF is_institutional_owner(owner_name)
      THEN PT_Classified("DISCARD", "INSTITUTIONAL", 0, <<"Institutional/bank owner">>, FALSE)
      ELSE IF owner_type = "UNKNOWN" /\ owner_name = <<>>
      THEN PT_Classified("DISCARD", owner_type, 0, <<"Missing owner name">>, FALSE)
      ELSE IF only_absentee /\ ~is_absentee
      THEN PT_Classified("DISCARD", owner_type, 0, <<"Not absentee owner (only_absentee=true)">>, FALSE)
      ELSE IF total_value = NoValue
      THEN PT_Classified("REVIEW", owner_type, 0, <<"Missing total_value">>, FALSE)
      ELSE IF total_value[1] <= 0
      THEN PT_Classified("DISCARD", owner_type, 0, <<"Invalid total_value">>, FALSE)
      ELSE IF total_value[1] < min_value
      THEN PT_Classified("REVIEW", owner_type,
                         PT_calculate_lead_score(owner_type, total_value, is_absentee,
                                                 min_value, max_value).score,
                         <<"Value below minimum">>, TRUE)
      ELSE IF total_value[1] > max_value
      THEN PT_Classified("REVIEW", owner_type, 0, <<"Value above maximum">>, FALSE)
      ELSE PT_Target(owner_type,
                     PT_calculate_lead_score(owner_type, total_value, is_absentee,
                                             min_value, max_value))

\* classify_property_row: the checks in the order of the code, the score
\* computed after the last of them. The messages are given without the
\* numbers they quote.
PT_classify_property_row(row, min_value, max_value, only_absentee) ==
  IF Unguarded(row, {"owner_name"}) THEN PT_Raised("AttributeError")
  ELSE
  LET owner_name == Strip(RowGet(row, "owner_name", <<>>))
      owner_type == PT_detect_owner_type(owner_name)
      is_absentee == LA_is_absentee_owner(row)
      total_value == parse_amount(RowGet(row, "total_value", <<>>))
  IN  IF is_institutional_owner(owner_name)
      THEN PT_Classified("DISCARD", "INSTITUTIONAL", 0, <<"Institutional/bank owner">>, FALSE)
      ELSE IF owner_type = "UNKNOWN" /\ owner_name = <<>>
      THEN PT_Classified("DISCARD", owner_type, 0, <<"Missing owner name">>, FALSE)
      ELSE IF only_absentee /\ ~is_absentee
      THEN PT_Classified("DISCARD", owner_type, 0, <<"Not absentee owner (only_absentee=true)">>, FALSE)
      ELSE IF total_value = NoValue
      THEN PT_Classified("REVIEW", owner_type, 0, <<"Missing total_value">>, FALSE)
      ELSE IF total_value[1] <= 0
      THEN PT_Classified("DISCARD", owner_type, 0, <<"Invalid total_value">>, FALSE)
      ELSE IF total_value[1] < min_value
      THEN PT_Classified("REVIEW", owner_type, 0, <<"Value below minimum">>, FALSE)
      ELSE IF total_value[1] > max_value
      THEN PT_Classified("REVIEW", owner_type, 0, <<"Value above maximum">>, FALSE)
      ELSE PT_Target(owner_type,
                     PT_calculate_lead_score(owner_type, total_value, is_absentee,
                                             min_value, max_value))

\* Rows of a TCAD targets file: a person, a company without a suffix, a
\* trust, an LLC, a bank, no owner, a cell None; values missing, unparseable,
\* not positive, below, at the ends of, inside and above the range.
PropertyRows ==
  { MkRow([owner_name |-> n, mailing_address |-> m,
           situs_address |-> <<"1"," ","M","A","I","N"," ","S","T">>, total_value |-> v]) :
      n \in { <<"J","O","H","N"," ","S","M","I","T","H">>, <<"A","C","M","E"," ","H","O","L","D","I","N","G","S">>,
              <<"S","M","I","T","H"," ","F","A","M","I","L","Y"," ","T","R","U","S","T">>,
              <<"A","C","M","E"," ","L","L","C">>, <<"F","I","R","S","T"," ","B","A","N","K">>, <<>>, None },
      m \in { <<"2"," ","O","A","K"," ","S","T">>, <<" ","1"," "," ","m","a","i","n"," ","s","t">>, <<>> },
      v \in { <<>>, <<"a","b","c">>, <<"0">>, <<"-","5">>, <<"1","0","0","0","0","0">>, <<"1","5","0","0","0","0">>,
              <<"$","3","0","0",",","0","0","0">>, <<"6","0","0","0","0","0">>, <<"6","0","0","0","0","1">>, None } }

InitPropertyRow ==
  /\ prog = "classify_property_row"
  /\ args \in [row : PropertyRows, min_value : {DEFAULT_MIN_VALUE}, max_value : {DEFAULT_MAX_VALUE},
               only_absentee : BOOLEAN]
  /\ result = PT_Raised("not called")
  /\ StagesIdle

PropertyRowClassified(c) == result' = c

CallClassifyPropertyRow ==
  /\ prog = "classify_property_row"
  /\ result.exc = "not called"
  /\ PropertyRowClassified(PT_classify_property_row(args.row, args.min_value, args.max_value,
                                                    args.only_absentee))
  /\ UNCHANGED <<prog, pc, rowsRead, counts, streams, cur, args>>

SpecPropertyRow == InitPropertyRow /\ [][CallClassifyPropertyRow]_vars

C29_Classified == prog = "classify_property_row" /\ result.exc = ""

\* C29: in classify_property_row every disqualifying check runs before the
\* score is computed. A DISCARD or REVIEW row carries the score 0 and
\* calculate_lead_score is called for TARGET rows only; the value of a TARGET
\* row is within [min_value, max_value], its reasons hold "value in range"
\* and its score is within 50..100, within 70..100 with only_absentee.
C29_ChecksBeforeScoring ==
  C29_Classified =>
    /\ result.classification \in {"DISCARD", "REVIEW"} => (result.lead_score = 0 /\ ~result.scored)
    /\ result.scored => result.classification = "TARGET"
    /\ result.classification = "TARGET" =>
         LET total_value == parse_amount(args.row["total_value"])
         IN  total_value # NoValue =>
             /\ args.min_value <= total_value[1] /\ total_value[1] <= args.max_value
             /\ \E i \in 1..Len(result.why_flagged) : result.why_flagged[i] = "value in range"
             /\ 50 <= result.lead_score /\ result.lead_score <= 100
             /\ args.only_absentee => 70 <= result.lead_score

\* A TARGET with the lowest score (an owner of unknown type who lives at the
\* property) and one with the highest have been classified.
C29_Witness ==
  /\ C29_Classified /\ result.classification = "TARGET" /\ result.scored
  /\ \/ result.lead_score = 50 /\ result.owner_type = "UNKNOWN"
     \/ result.lead_score = 100 /\ args.only_absentee

-----------------------------------------------------------------------------
(* filter_notes.process_recorder_file: one row through the loop body      *)

\* scored: build_email_ready_row, and in it calculate_lead_score, was called.
FN_Processed(classification, owner_type, scored, sc) ==
  [exc |-> "", classification |-> classification, owner_type |-> owner_type,
   scored |-> scored, lead_score |-> sc.score, why_flagged |-> sc.why_flagged]

FN_ProcessRaised(exc) ==
  [exc |-> exc, classification |-> "", owner_type |-> "", scored |-> FALSE,
   lead_score |-> 0, why_flagged |-> <<>>]

\* A variant of the loop body that builds the email-ready row of every row.
FN_process_row_ScoresEveryRow(row, column_mapping) ==
  LET c == FN_classify_row(row, column_mapping)
  IN  IF c.exc # "" THEN FN_ProcessRaised(c.exc)
      ELSE FN_Processed(c.classification, FN_row_owner_type(row, column_mapping), TRUE,
                        FN_row_score(row, column_mapping))

\* The loop body: classify_row, then for a LEAD build_email_ready_row with
\* its owner type, score and reasons; a REVIEW or DISCARD row is written as
\* read with its classification reason.
FN_process_row(row, column_mapping) ==
  LET c == FN_classify_row(row, column_mapping)
  IN  IF c.exc # "" THEN FN_ProcessRaised(c.exc)
      ELSE IF c.classification = "LEAD"
      THEN FN_Processed("LEAD", FN_row_owner_type(row, column_mapping), TRUE,
                        FN_row_score(row, column_mapping))
      ELSE FN_Processed(c.classification, "", FALSE, Scored(0, <<>>))

\* Rows of a recorder file: a bank, a person, a company of unknown type, a
\* trust, an LLC, no lender, a lender cell None; amounts missing, unparseable,
\* zero, very small, small, medium, large, at the limit; four document types;
\* dates on both sides of the 3 and the 20 year limits.
LeadRows ==
  {MkRow([lender_name |-> ln, loan_amount |-> la, doc_type |-> dt, recording_date |-> rd]) :
     ln \in { <<"W","E","L","L","S"," ","F","A","R","G","O"," ","B","A","N","K",","," ","N",".","A",".">>, <<"J","O","H","N"," ","S","M","I","T","H">>, <<"A","C","M","E"," ","H","O","L","D","I","N","G","S">>, <<"S","M","I","T","H"," ","F","A","M","I","L","Y"," ","T","R","U","S","T">>, <<"A","C","M","E"," ","H","O","L","D","I","N","G","S"," ","L","L","C">>, <<>>, None },
     la \in { Absent, <<"a","b","c">>, <<"0">>, <<"1">>, <<"$","5","0",",","0","0","0">>, <<"1","5","0","0","0","0">>, <<"4","9","9","9","9","9">>, <<"5","0","0","0","0","0">> },
     dt \in { <<>>, <<"N","O","T","E">>, <<"L","I","E","N">>, <<"R","E","L","E","A","S","E"," ","O","F"," ","L","I","E","N">> },
     rd \in { Absent, <<"2","0","2","3","-","1","1","-","0","7">>, <<"2","0","2","3","-","1","1","-","0","6">>, <<"2","0","1","1","-","1","1","-","0","6">>, <<"2","0","0","6","-","1","1","-","0","6">>, <<"2","0","0","6","-","1","1","-","0","5">> }}

InitLeadRow ==
  /\ prog = "process_recorder_row"
  /\ args \in [row : LeadRows, column_mapping : ColumnMappings]
  /\ result = FN_ProcessRaised("not called")
  /\ StagesIdle

LeadRowProcessed(r) == result' = r

ProcessRecorderRow ==
  /\ prog = "process_recorder_row"
  /\ result.exc = "not called"
  /\ LeadRowProcessed(FN_process_row(args.row, args.column_mapping))
  /\ UNCHANGED <<prog, pc, rowsRead, counts, streams, cur, args>>

SpecLeadRow == InitLeadRow /\ [][ProcessRecorderRow]_vars

C30_Processed == prog = "process_recorder_row" /\ result.exc = ""

C30_ExcludedReasons ==
  {"bank lender", "missing loan amount", "missing date", "very recent", "very old"}

\* C30: filter_notes computes the score of LEAD rows only. The owner type of
\* an emitted lead is not BANK, its amount is above 0 and below 500000, its
\* recording is at least 3 and at most 20 years old, its reasons hold none of
\* "bank lender", "missing loan amount", "missing date", "very recent" and
\* "very old", and its score is at least 15.
C30_LeadsOnlyAreScored ==
  C30_Processed =>
    /\ result.scored => result.classification = "LEAD"
    /\ result.classification = "LEAD" =>
         LET loan_amount == loan_amount_of(args.row, args.column_mapping)
             recording_age == recording_age_of(args.row, args.column_mapping)
         IN  loan_amount # NoValue =>
               /\ result.scored
               /\ result.owner_type # "BANK"
               /\ 0 < loan_amount[1] /\ loan_amount[1] < 500000
               /\ recording_age # NoValue
               /\ ~AgeLT(recording_age[1], 3) /\ AgeLE(recording_age[1], 20)
               /\ \A i \in 1..Len(result.why_flagged) :
                    result.why_flagged[i] \notin C30_ExcludedReasons
               /\ result.lead_score >= 15

\* A lead with the lowest score has been emitted: a lender of unknown type,
\* an amount below 10000, no document type, a recording older than 10 years.
C30_Witness ==
  /\ C30_Processed /\ result.classification = "LEAD" /\ result.scored
  /\ result.lead_score = 15 /\ result.owner_type = "UNKNOWN"

====
